---- MODULE Spec2Model ----
(***************************************************************************)
(* Model of the training-data generators of animeshkundu/fix:              *)
(*   src/src/data_generation/generators/*.py  (the four synthesizers)      *)
(*   src/scripts/generate_data.py, src/scripts/verify_dataset.py           *)
(*                                                                         *)
(* Strings are sequences of one-character strings, so that strip, replace, *)
(* split and the character comparisons are computed as the code computes   *)
(* them.  Every specification below uses its own variable and leaves the   *)
(* others at Idle.                                                         *)
(***************************************************************************)
EXTENDS Integers, Sequences, FiniteSets, TLC

VARIABLES
    gate,    \* one call pair of _is_single_char_correction
    exp,     \* one _extract_variables + expand_template round
    quota,   \* the per-shell quota computation at the start of generate
    g,       \* the runs of generate(count): run id -> the run's fields and locals
    rng,     \* per run, the position in the stream of its random.Random(seed)
    tape,    \* the stream random.Random(seed) yields for the seed in use
    syn,     \* one synthesis attempt: the locals of the example-creating method
    asm,     \* the orchestrator: main and combine_datasets of generate_data.py
    prim,    \* one call of a corruption primitive on one input string
    ver      \* one run of verify_dataset.py over a directory of analysis files

vars == <<gate, exp, quota, g, rng, tape, syn, asm, prim, ver>>

Idle == "idle"

\* No generate run in progress.
NoRuns == <<>>

(***************************************************************************)
(* Strings                                                                 *)
(***************************************************************************)

\* Longest string of the quality-gate specification.
MaxGateLen == 3

\* All sequences over S of length at most n.
StringsUpTo(S, n) == UNION {[1..k -> S] : k \in 0..n}

\* str.strip() with no argument removes leading and trailing whitespace.
Whitespace == {" ", "\t", "\n"}

RECURSIVE LStrip(_)
LStrip(s) ==
    IF s # <<>> /\ Head(s) \in Whitespace THEN LStrip(Tail(s)) ELSE s

RECURSIVE RStrip(_)
RStrip(s) ==
    IF s # <<>> /\ s[Len(s)] \in Whitespace
    THEN RStrip(SubSeq(s, 1, Len(s) - 1))
    ELSE s

Strip(s) == RStrip(LStrip(s))

\* sum(1 for a, b in zip(inc, cor) if a != b)
DiffCount(inc, cor) ==
    LET n == IF Len(inc) < Len(cor) THEN Len(inc) ELSE Len(cor)
    IN  Cardinality({i \in 1..n : inc[i] # cor[i]})

\* longer[:i] + longer[i + 1:] for the 0-based i = k - 1
RemoveAt(s, k) == SubSeq(s, 1, k - 1) \o SubSeq(s, k + 1, Len(s))

\* A caller that forgets to order the pair by length.
SortedByLenUnsorted(a, b) == <<a, b>>

\* sorted([inc, cor], key=len): stable, the shorter string first.
SortedByLen(a, b) == IF Len(b) < Len(a) THEN <<b, a>> ELSE <<a, b>>

AbsDiff(m, n) == IF m < n THEN n - m ELSE m - n

\* The equal-length test written as diff_count <= 1.
IsSingleCharCorrectionOffByOne(incorrect, correct) ==
    LET inc == Strip(incorrect)
        cor == Strip(correct)
    IN  IF Len(inc) = Len(cor)
        THEN DiffCount(inc, cor) <= 1
        ELSE IF AbsDiff(Len(inc), Len(cor)) = 1
             THEN LET p == SortedByLen(inc, cor)
                  IN  \E i \in 1..Len(p[2]) : p[1] = RemoveAt(p[2], i)
             ELSE FALSE

\* _is_single_char_correction (the three copies are the same code).
IsSingleCharCorrection(incorrect, correct) ==
    LET inc == Strip(incorrect)
        cor == Strip(correct)
    IN  IF Len(inc) = Len(cor)
        THEN DiffCount(inc, cor) = 1
        ELSE IF AbsDiff(Len(inc), Len(cor)) = 1
             THEN LET p == SortedByLen(inc, cor)
                      shorter == p[1]
                      longer == p[2]
                  IN  \E i \in 1..Len(longer) : shorter = RemoveAt(longer, i)
             ELSE FALSE

(***************************************************************************)
(* Quality gate: _is_single_char_correction on bounded strings             *)
(***************************************************************************)

GateAlphabet == {"a", "b", " "}

GateStrings == StringsUpTo(GateAlphabet, MaxGateLen)

GateInit ==
    /\ gate \in [pc : {"call"}, incorrect : GateStrings, correct : GateStrings,
                 result : {FALSE}, swapped : {FALSE}]
    /\ exp = Idle
    /\ quota = Idle
    /\ g = NoRuns /\ rng = Idle /\ tape = Idle /\ syn = Idle /\ asm = Idle /\ prim = Idle /\ ver = Idle

\* _is_single_char_correction(incorrect, correct)
Classify ==
    /\ gate.pc = "call"
    /\ gate' = [gate EXCEPT !.pc = "swap",
                            !.result = IsSingleCharCorrection(gate.incorrect, gate.correct)]
    /\ UNCHANGED <<exp, quota, g, rng, tape, syn, asm, prim, ver>>

\* _is_single_char_correction(correct, incorrect): the same pair, arguments exchanged
ClassifySwapped ==
    /\ gate.pc = "swap"
    /\ gate' = [gate EXCEPT !.pc = "done",
                            !.swapped = IsSingleCharCorrection(gate.correct, gate.incorrect)]
    /\ UNCHANGED <<exp, quota, g, rng, tape, syn, asm, prim, ver>>

GateNext == Classify \/ ClassifySwapped

SpecGate == GateInit /\ [][GateNext]_vars

\* The two cases of the definition, on the strings handed in.
OneSubstitution(a, b) ==
    /\ Len(a) = Len(b)
    /\ \E i \in 1..Len(a) : /\ a[i] # b[i]
                            /\ \A j \in 1..Len(a) : j # i => a[j] = b[j]

OneDeletion(long, short) ==
    /\ Len(long) = Len(short) + 1
    /\ \E i \in 1..Len(long) :
          /\ \A j \in 1..(i - 1) : short[j] = long[j]
          /\ \A j \in i..Len(short) : short[j] = long[j + 1]

SingleCharByDefinition(a, b) ==
    OneSubstitution(a, b) \/ OneDeletion(a, b) \/ OneDeletion(b, a)

\* The string between the first and the last non-whitespace character.
Trimmed(s) ==
    LET keep == {i \in 1..Len(s) : s[i] \notin Whitespace}
    IN  IF keep = {} THEN <<>>
        ELSE LET lo == CHOOSE i \in keep : \A j \in keep : i <= j
                 hi == CHOOSE i \in keep : \A j \in keep : j <= i
             IN  SubSeq(s, lo, hi)

\* C4 as stated: the result is the definition applied to a and b as given.
C4_AsGiven ==
    gate.pc # "call" =>
        (gate.result <=> SingleCharByDefinition(gate.incorrect, gate.correct))

\* C4 amended: the result is the definition applied to the whitespace-trimmed
\* a and b; in every other case (equal trimmed strings, trimmed lengths two
\* or more apart) it is false.
C4_OnTrimmed ==
    gate.pc # "call" =>
        (gate.result <=>
            SingleCharByDefinition(Trimmed(gate.incorrect), Trimmed(gate.correct)))

\* A call where trimming decides: one trailing blank apart, classified false.
C4_Witness ==
    /\ gate.pc # "call"
    /\ gate.incorrect = gate.correct \o <<" ">>
    /\ gate.correct # <<>>
    /\ ~gate.result

\* C5: is_single_char_correction(a, b) = is_single_char_correction(b, a).
C5_Symmetric ==
    gate.pc = "done" => (gate.result <=> gate.swapped)

\* Both orders classified true on strings of different length.
C5_Witness ==
    /\ gate.pc = "done"
    /\ Len(gate.incorrect) > Len(gate.correct)
    /\ gate.result
    /\ gate.swapped

(***************************************************************************)
(* Variable resolver and template expansion                                *)
(***************************************************************************)

\* Most template parts concatenated into one template of the expansion
\* specification.
MaxParts == 4

\* Characters that the regular expression class \w matches: letters, digits
\* and the underscore.
WordChars ==
    {"a", "b", "c", "d", "e", "f", "g", "h", "i", "j", "k", "l", "m", "n", "o", "p",
     "q", "r", "s", "t", "u", "v", "w", "x", "y", "z",
     "A", "B", "C", "D", "E", "F", "G", "H", "I", "J", "K", "L", "M", "N", "O", "P",
     "Q", "R", "S", "T", "U", "V", "W", "X", "Y", "Z",
     "0", "1", "2", "3", "4", "5", "6", "7", "8", "9", "_"}

\* COMMON_VARIABLES: candidate values per recognised placeholder name.  Four
\* of its entries are kept, each with two of its values; every other name
\* used is unrecognised.
COMMON_VARIABLES ==
    [name \in {<<"n">>, <<"p", "a", "t", "h">>, <<"f", "i", "l", "e">>, <<"p", "r", "o", "c", "e", "s", "s">>} |->
        CASE name = <<"n">> -> {<<"1">>, <<"3">>}
          [] name = <<"p", "a", "t", "h">> -> {<<"s", "r", "c">>, <<"t", "m", "p">>}
          [] name = <<"f", "i", "l", "e">> -> {<<"f", "i", "l", "e", ".", "t", "x", "t">>, <<"d", "a", "t", "a", ".", "j", "s", "o", "n">>}
          [] name = <<"p", "r", "o", "c", "e", "s", "s">> -> {<<"n", "g", "i", "n", "x">>, <<"n", "o", "d", "e">>}]

\* An unrecognised name left without a value.
GetRandomVariableNoFallback(var_name) ==
    IF var_name \in DOMAIN COMMON_VARIABLES
    THEN COMMON_VARIABLES[var_name]
    ELSE {<<>>}

\* get_random_variable: the values rng.choice can return for var_name; the
\* name itself when it is not a key of COMMON_VARIABLES.
GetRandomVariable(var_name) ==
    IF var_name \in DOMAIN COMMON_VARIABLES
    THEN COMMON_VARIABLES[var_name]
    ELSE {var_name}

\* Number of leading \w characters of s.
RECURSIVE WordRun(_)
WordRun(s) ==
    IF s # <<>> /\ Head(s) \in WordChars THEN 1 + WordRun(Tail(s)) ELSE 0

\* re.findall(r"\{(\w+)\}", s): the names of the non-overlapping matches,
\* left to right.
RECURSIVE FindAll(_)
FindAll(s) ==
    IF s = <<>> THEN <<>>
    ELSE IF Head(s) = "{"
         THEN LET w == WordRun(Tail(s))
              IN  IF w >= 1 /\ Len(s) >= w + 2 /\ s[w + 2] = "}"
                  THEN <<SubSeq(s, 2, w + 1)>> \o FindAll(SubSeq(s, w + 3, Len(s)))
                  ELSE FindAll(Tail(s))
         ELSE FindAll(Tail(s))

\* The placeholders in order of first appearance, each once
\* (the "if placeholder not in variables" test of _extract_variables).
RECURSIVE FirstAppearances(_)
FirstAppearances(names) ==
    IF names = <<>> THEN <<>>
    ELSE LET rest == FirstAppearances(SubSeq(names, 1, Len(names) - 1))
             last == names[Len(names)]
         IN  IF \E i \in 1..Len(rest) : rest[i] = last
             THEN rest
             ELSE Append(rest, last)

\* _extract_variables: the bindings it can return.  A binding is the dict in
\* insertion order, a sequence of <<name, value>>.
ExtractVariables(template) ==
    LET names == FirstAppearances(FindAll(template))
        items == UNION {{<<names[i], v>> : v \in GetRandomVariable(names[i])} :
                            i \in 1..Len(names)}
    IN  {b \in [1..Len(names) -> items] :
            \A i \in 1..Len(names) :
                /\ b[i][1] = names[i]
                /\ b[i][2] \in GetRandomVariable(names[i])}

IsPrefix(p, s) == Len(p) <= Len(s) /\ SubSeq(s, 1, Len(p)) = p

\* str.replace(old, new): every non-overlapping occurrence, left to right.
RECURSIVE ReplaceAll(_, _, _)
ReplaceAll(s, old, new) ==
    IF Len(s) < Len(old) \/ old = <<>> THEN s
    ELSE IF IsPrefix(old, s)
         THEN new \o ReplaceAll(SubSeq(s, Len(old) + 1, Len(s)), old, new)
         ELSE <<Head(s)>> \o ReplaceAll(Tail(s), old, new)

Placeholder(key) == <<"{">> \o key \o <<"}">>

\* expand_template: one str.replace per key, in the order of the dict, each
\* on the result of the one before.
RECURSIVE ExpandTemplate(_, _)
ExpandTemplate(template, variables) ==
    IF variables = <<>> THEN template
    ELSE ExpandTemplate(
            ReplaceAll(template, Placeholder(variables[1][1]), variables[1][2]),
            Tail(variables))

TemplateParts ==
    {<<"{">>, <<"}">>, <<"n">>, <<"1">>, <<"{", "n", "}">>, <<"{", "1", "}">>}

RECURSIVE Concat(_)
Concat(parts) == IF parts = <<>> THEN <<>> ELSE Head(parts) \o Concat(Tail(parts))

Templates == {Concat(ps) : ps \in StringsUpTo(TemplateParts, MaxParts)}

ExpandInit ==
    /\ exp \in [pc : {"extract"}, template : Templates,
                variables : {<<>>}, result : {<<>>}]
    /\ gate = Idle
    /\ quota = Idle
    /\ g = NoRuns /\ rng = Idle /\ tape = Idle /\ syn = Idle /\ asm = Idle /\ prim = Idle /\ ver = Idle

\* variables = self._extract_variables(template)
ExtractStep ==
    /\ exp.pc = "extract"
    /\ \E b \in ExtractVariables(exp.template) :
          exp' = [exp EXCEPT !.pc = "expand", !.variables = b]
    /\ UNCHANGED <<gate, quota, g, rng, tape, syn, asm, prim, ver>>

\* self.expand_template(template, variables)
ExpandStep ==
    /\ exp.pc = "expand"
    /\ exp' = [exp EXCEPT !.pc = "done",
                          !.result = ExpandTemplate(exp.template, exp.variables)]
    /\ UNCHANGED <<gate, quota, g, rng, tape, syn, asm, prim, ver>>

ExpandNext == ExtractStep \/ ExpandStep

SpecExpand == ExpandInit /\ [][ExpandNext]_vars

\* One pass over the original template: each {name} whose name is bound is
\* replaced by its value, everything else is copied; substituted text is not
\* looked at again.
RECURSIVE SubstituteOnce(_, _)
SubstituteOnce(template, variables) ==
    IF template = <<>> THEN <<>>
    ELSE LET hits == {i \in 1..Len(variables) :
                         IsPrefix(Placeholder(variables[i][1]), template)}
         IN  IF hits = {}
             THEN <<Head(template)>> \o SubstituteOnce(Tail(template), variables)
             ELSE LET i == CHOOSE k \in hits : TRUE
                  IN  variables[i][2] \o
                      SubstituteOnce(
                          SubSeq(template, Len(variables[i][1]) + 3, Len(template)),
                          variables)

\* C6: expand(template, binding) is the one simultaneous pass over the
\* original template; text put in by a substitution is not substituted again.
C6_NoRecursiveExpansion ==
    exp.pc = "done" => exp.result = SubstituteOnce(exp.template, exp.variables)

\* The names that stand in the template as {name}: a brace, one or more
\* word characters, a closing brace.
PlaceholderNames(template) ==
    {SubSeq(template, i + 1, j - 1) :
        <<i, j>> \in {p \in (1..Len(template)) \X (1..Len(template)) :
                         /\ p[1] + 1 < p[2]
                         /\ template[p[1]] = "{" /\ template[p[2]] = "}"
                         /\ \A k \in (p[1] + 1)..(p[2] - 1) : template[k] \in WordChars}}

\* Index of the first {name} in the template.
FirstAt(template, name) ==
    LET at == {i \in 1..Len(template) :
                  IsPrefix(Placeholder(name), SubSeq(template, i, Len(template)))}
    IN  IF at = {} THEN 0 ELSE CHOOSE i \in at : \A j \in at : i <= j

\* C14: the binding _extract_variables returns has exactly the distinct
\* {name} placeholders of the template as its keys, each once, in the order
\* of their first appearance; a recognised name is bound to a member of its
\* candidate set and an unrecognised name to the name itself.
C14_Binding ==
    exp.pc \in {"expand", "done"} =>
        LET b == exp.variables
        IN  /\ {b[i][1] : i \in 1..Len(b)} = PlaceholderNames(exp.template)
            /\ \A i, j \in 1..Len(b) :
                   i < j => FirstAt(exp.template, b[i][1]) < FirstAt(exp.template, b[j][1])
            /\ \A i \in 1..Len(b) :
                   IF b[i][1] \in DOMAIN COMMON_VARIABLES
                   THEN b[i][2] \in COMMON_VARIABLES[b[i][1]]
                   ELSE b[i][2] = b[i][1]

\* A template with a recognised placeholder that occurs twice around an
\* unrecognised one, resolved to a binding of the two names.
C14_Witness ==
    /\ exp.pc = "expand"
    /\ exp.template = <<"{", "n", "}", "{", "1", "}", "{", "n", "}">>
    /\ exp.variables = << <<<<"n">>, <<"3">>>>, <<<<"1">>, <<"1">>>> >>

(***************************************************************************)
(* Python float arithmetic: int(count * weight)                            *)
(*                                                                         *)
(* A double is mant * 2^(-exp) with mant an integer of at most 53 bits,    *)
(* held as a sequence of bits, least significant first (the products do    *)
(* not fit the model checker's 32-bit integers).                           *)
(***************************************************************************)

\* Largest target count of the quota specification.
MaxQuotaCount == 180

RECURSIVE NatToBits(_)
NatToBits(n) == IF n = 0 THEN <<>> ELSE <<n % 2>> \o NatToBits(n \div 2)

RECURSIVE BitsToNat(_)
BitsToNat(b) == IF b = <<>> THEN 0 ELSE Head(b) + 2 * BitsToNat(Tail(b))

\* Most significant hexadecimal digit first.
RECURSIVE HexToBits(_)
HexToBits(h) ==
    IF h = <<>> THEN <<>>
    ELSE LET d == h[Len(h)]
         IN  <<d % 2, (d \div 2) % 2, (d \div 4) % 2, (d \div 8) % 2>>
             \o HexToBits(SubSeq(h, 1, Len(h) - 1))

\* Without the zero bits above the highest one bit.
RECURSIVE TrimBits(_)
TrimBits(b) ==
    IF b # <<>> /\ b[Len(b)] = 0 THEN TrimBits(SubSeq(b, 1, Len(b) - 1)) ELSE b

RECURSIVE AddBits(_, _, _)
AddBits(a, b, carry) ==
    IF a = <<>> /\ b = <<>> THEN (IF carry = 0 THEN <<>> ELSE <<carry>>)
    ELSE LET x == IF a = <<>> THEN 0 ELSE Head(a)
             y == IF b = <<>> THEN 0 ELSE Head(b)
             t == x + y + carry
         IN  <<t % 2>> \o AddBits(IF a = <<>> THEN <<>> ELSE Tail(a),
                                  IF b = <<>> THEN <<>> ELSE Tail(b),
                                  t \div 2)

\* bits * n, exactly.
RECURSIVE MulBits(_, _)
MulBits(b, n) ==
    IF n = 0 THEN <<>>
    ELSE LET rest == <<0>> \o MulBits(b, n \div 2)
         IN  IF n % 2 = 1 THEN AddBits(b, rest, 0) ELSE rest

\* Bits of a double's significand.
MantissaBits == 53

\* The exact product rounded to a double: to 53 significant bits, to nearest,
\* ties to even.
RoundToDouble(m, e) ==
    LET p == TrimBits(m)
        s == Len(p) - MantissaBits
    IN  IF s <= 0 THEN [mant |-> p, exp |-> e]
        ELSE LET q == SubSeq(p, s + 1, Len(p))
                 low == SubSeq(p, 1, s)
                 half == low[s] = 1 /\ \A i \in 1..(s - 1) : low[i] = 0
                 above == low[s] = 1 /\ \E i \in 1..(s - 1) : low[i] = 1
                 up == above \/ (half /\ q[1] = 1)
             IN  [mant |-> IF up THEN AddBits(q, <<1>>, 0) ELSE q,
                  exp |-> e - s]

\* count * weight in double arithmetic (count is an exact double).
FloatTimesInt(weight, count) ==
    RoundToDouble(MulBits(weight.mant, count), weight.exp)

\* int(x) for x >= 0: truncation.
IntOfFloat(x) ==
    IF x.exp <= 0 THEN BitsToNat(x.mant)
    ELSE BitsToNat(SubSeq(x.mant, x.exp + 1, Len(x.mant)))

\* A float literal, from its float.hex(): 0x1.<13 digits>p<e> is
\* 0x1<13 digits> * 2^(e - 52).
Double(hex, e) == [mant |-> TrimBits(HexToBits(hex)), exp |-> 52 - e]

Shells == <<"bash", "zsh", "powershell", "cmd", "fish", "tcsh">>

ShellSet == {Shells[i] : i \in 1..Len(Shells)}

\* BaseGenerator.SHELL_WEIGHTS, in the order of the dict.
SHELL_WEIGHTS ==
    [bash       |-> Double(<<1, 6, 6, 6, 6, 6, 6, 6, 6, 6, 6, 6, 6, 6>>, -2),
     zsh        |-> Double(<<1, 0, 0, 0, 0, 0, 0, 0, 0, 0, 0, 0, 0, 0>>, -2),
     powershell |-> Double(<<1, 9, 9, 9, 9, 9, 9, 9, 9, 9, 9, 9, 9, 10>>, -3),
     cmd        |-> Double(<<1, 14, 11, 8, 5, 1, 14, 11, 8, 5, 1, 14, 11, 8>>, -4),
     fish       |-> Double(<<1, 9, 9, 9, 9, 9, 9, 9, 9, 9, 9, 9, 9, 10>>, -5),
     tcsh       |-> Double(<<1, 14, 11, 8, 5, 1, 14, 11, 8, 5, 1, 14, 11, 8>>, -6)]

\* MAX_SINGLE_CHAR_PERCENTAGE = 0.05
MAX_SINGLE_CHAR_PERCENTAGE ==
    Double(<<1, 9, 9, 9, 9, 9, 9, 9, 9, 9, 9, 9, 9, 10>>, -5)

RECURSIVE SumOver(_, _)
SumOver(f, S) ==
    IF S = {} THEN 0
    ELSE LET x == CHOOSE y \in S : TRUE IN f[x] + SumOver(f, S \ {x})

\* shell_counts = {shell: int(count * weight) for shell, weight in ...}
ShellCounts(count) ==
    [shell \in ShellSet |-> IntOfFloat(FloatTimesInt(SHELL_WEIGHTS[shell], count))]

\* The adjustment left out.
AdjustForRoundingSkipped(shell_counts, count) == shell_counts

\* total = sum(shell_counts.values())
\* if total < count: shell_counts["bash"] += count - total
AdjustForRounding(shell_counts, count) ==
    LET total == SumOver(shell_counts, ShellSet)
    IN  IF total < count
        THEN [shell_counts EXCEPT !["bash"] = @ + (count - total)]
        ELSE shell_counts

(***************************************************************************)
(* Quotas: the first lines of generate                                     *)
(***************************************************************************)

QuotaInit ==
    /\ quota \in [pc : {"weights"}, count : 0..MaxQuotaCount,
                  shell_counts : {<<>>}, total : {0}]
    /\ gate = Idle
    /\ exp = Idle
    /\ g = NoRuns /\ rng = Idle /\ tape = Idle /\ syn = Idle /\ asm = Idle /\ prim = Idle /\ ver = Idle

\* shell_counts = {...}; total = sum(shell_counts.values())
ComputeShellCounts ==
    /\ quota.pc = "weights"
    /\ LET sc == ShellCounts(quota.count)
       IN  quota' = [quota EXCEPT !.pc = "adjust", !.shell_counts = sc,
                                  !.total = SumOver(sc, ShellSet)]
    /\ UNCHANGED <<gate, exp, g, rng, tape, syn, asm, prim, ver>>

\* if total < count: shell_counts["bash"] += count - total
AdjustRounding ==
    /\ quota.pc = "adjust"
    /\ quota' = [quota EXCEPT !.pc = "done",
                    !.shell_counts = AdjustForRounding(quota.shell_counts, quota.count)]
    /\ UNCHANGED <<gate, exp, g, rng, tape, syn, asm, prim, ver>>

QuotaNext == ComputeShellCounts \/ AdjustRounding

SpecQuota == QuotaInit /\ [][QuotaNext]_vars

\* The weights as the decimal fractions the claim names, in hundredths.
WeightPercent ==
    [bash |-> 35, zsh |-> 25, powershell |-> 20, cmd |-> 12, fish |-> 5, tcsh |-> 3]

ExactFloor(count, shell) == (count * WeightPercent[shell]) \div 100

ExactFloors(count) == [shell \in ShellSet |-> ExactFloor(count, shell)]

\* C9: every shell but bash gets floor(count * weight); bash gets
\* floor(count * 0.35) plus the whole truncation remainder; the six quotas
\* sum to count.
C9_Quotas ==
    quota.pc = "done" =>
        LET remainder == quota.count - SumOver(ExactFloors(quota.count), ShellSet)
        IN  /\ \A shell \in ShellSet \ {"bash"} :
                  quota.shell_counts[shell] = ExactFloor(quota.count, shell)
            /\ quota.shell_counts["bash"] = ExactFloor(quota.count, "bash") + remainder
            /\ SumOver(quota.shell_counts, ShellSet) = quota.count

\* A count whose quotas leave a remainder and whose bash product,
\* int(180 * 0.35) = 62, is truncated below the exact 63.
C9_Witness ==
    /\ quota.pc = "done"
    /\ quota.total < SumOver(ExactFloors(quota.count), ShellSet)
    /\ quota.shell_counts["bash"] > ExactFloor(quota.count, "bash")

(***************************************************************************)
(* generate(count) of the four synthesizers                                *)
(*                                                                         *)
(* One run is a record of the fields and locals of generate.  Every random *)
(* draw is one call of the run's generator; an action that draws takes the *)
(* raw value d and reduces it to the range it needs.                       *)
(***************************************************************************)

\* Largest target count of a run with every catalog loaded.
MaxCount == 3

\* The target count at which int(count * 0.05) first reaches 1; used with
\* catalogs of the low-weight shells only, so that the pool stays small.
CapCount == 20

\* The target count at which a shell other than bash first has a quota
\* (int(4 * 0.25) = 1 for zsh); used with the bash catalog alone.
SkipCount == MaxCount + 1

\* max_retries = 3 of the deficit loop
MaxRetries == 3

Generators == {"single", "chained", "nl", "tools"}

\* The generators that enforce the single-character cap.
Capping == {"single", "tools"}

Example(shell, incorrect, correct) ==
    [shell |-> shell, incorrect_command |-> incorrect, correct_command |-> correct]

\* incorrect.strip() == correct.strip()
IsNullCorrection(incorrect, correct) == Strip(incorrect) = Strip(correct)

\* None, as the list of no example.
NoExample == <<>>

CorrectCommand == <<"l", "s">>

\* What one synthesis attempt can hold as its candidate before the final
\* check: a single-character error, a multi-character error, the correct
\* command followed by a blank, nothing (no pattern, empty template), the
\* correct command itself.
Candidates ==
    << <<"l", "a">>, <<"s", "l">>, <<"l", "s", " ">>, <<>>, <<"l", "s">> >>

\* _create_example_from_entry / _create_example_from_pattern /
\* _create_example, as the list of what the caller appends: None for an
\* empty template and for a candidate that fails the final null check.  The
\* natural-language _generate_for_shell has no such check and skips the draw
\* only when it has no pattern.
CreateExample(gen, shell, d) ==
    LET cand == Candidates[(d % Len(Candidates)) + 1]
    IN  IF cand = <<>> THEN NoExample
        ELSE IF gen # "nl" /\ IsNullCorrection(cand, CorrectCommand) THEN NoExample
        ELSE <<Example(shell, cand, CorrectCommand)>>

\* The filter left out.
NullFilterKeepsAll(examples) == examples

\* [ex for ex in examples
\*  if ex is not None and ex.incorrect_command.strip() != ex.correct_command.strip()]
NullFilter(examples) ==
    SelectSeq(examples,
              LAMBDA ex : ~IsNullCorrection(ex.incorrect_command, ex.correct_command))

\* examples without the slice.
TruncateKeepsAll(examples, count) == examples

\* examples[:count]
Truncate(examples, count) ==
    SubSeq(examples, 1, IF Len(examples) < count THEN Len(examples) ELSE count)

\* The cap left out.
CapSinglesKeepsAll(single_char_examples, max_single_char) == single_char_examples

\* if len(single_char_examples) > max_single_char:
\*     single_char_examples = single_char_examples[:max_single_char]
CapSingles(single_char_examples, max_single_char) ==
    IF Len(single_char_examples) > max_single_char
    THEN SubSeq(single_char_examples, 1, max_single_char)
    ELSE single_char_examples

\* max_single_char = int(count * self.MAX_SINGLE_CHAR_PERCENTAGE)
MaxSingleChar(count) == IntOfFloat(FloatTimesInt(MAX_SINGLE_CHAR_PERCENTAGE, count))

IsSingle(ex) == IsSingleCharCorrection(ex.incorrect_command, ex.correct_command)

\* x[i], x[j] = x[j], x[i] (1-based here)
Swap(x, i, j) == [x EXCEPT ![i] = x[j], ![j] = x[i]]

\* The draws made without a look at what was loaded.
DrawsForEveryShell(run, shell, n) == n

\* The draws _generate_for_shell(shell, n) makes: none when the
\* single-command generator finds no entries for the shell.
DrawsFor(run, shell, n) ==
    IF run.gen = "single" /\ shell \notin run.templates THEN 0 ELSE n

\* _generate_for_shell of the single-command generator on a shell whose
\* catalog file holds no document: yaml.safe_load returned None, the key is
\* in self.templates, and "category in template" raises TypeError.
Raises(run, shell) == run.gen = "single" /\ shell \in run.no_document

\* The program counter on entering _generate_for_shell(shell, ...).
Entering(run, shell, pc) == IF Raises(run, shell) THEN "raised" ELSE pc

InitRun(gen, count, templates, no_document) ==
    [gen |-> gen, count |-> count, templates |-> templates,
     no_document |-> no_document, pc |-> "start",
     shell_counts |-> <<>>, shell |-> 0, left |-> 0, examples |-> <<>>,
     retry |-> 0, k |-> 0, max_single_char |-> 0,
     single_char_examples |-> <<>>, multi_char_examples |-> <<>>,
     result |-> <<>>]

\* shell_counts = {...}; the adjustment for rounding; the first shell.
Start(r) ==
    /\ g[r].pc = "start"
    /\ LET sc == AdjustForRounding(ShellCounts(g[r].count), g[r].count)
       IN  g' = [g EXCEPT ![r] = [@ EXCEPT
                     !.pc = Entering(g[r], Shells[1], "shells"),
                     !.shell_counts = sc, !.shell = 1,
                     !.left = DrawsFor(g[r], Shells[1], sc[Shells[1]])]]

\* One iteration of "for _ in range(count)" of the per-shell pass.
GenerateOne(r, d) ==
    /\ g[r].pc = "shells"
    /\ g[r].left > 0
    /\ LET ex == CreateExample(g[r].gen, Shells[g[r].shell], d)
       IN  g' = [g EXCEPT ![r] = [@ EXCEPT !.left = @ - 1,
                     !.examples = @ \o ex]]

\* The next shell of "for shell, shell_count in shell_counts.items()".
NextShell(r) ==
    /\ g[r].pc = "shells"
    /\ g[r].left = 0
    /\ g[r].shell < Len(Shells)
    /\ LET next == Shells[g[r].shell + 1]
       IN  g' = [g EXCEPT ![r] = [@ EXCEPT !.shell = @ + 1,
                     !.pc = Entering(g[r], next, "shells"),
                     !.left = DrawsFor(g[r], next, g[r].shell_counts[next])]]

\* After the last shell: the filter of nulls; the natural-language generator
\* goes on to the shuffle, the others to the deficit loop.
Filter(r) ==
    /\ g[r].pc = "shells"
    /\ g[r].left = 0
    /\ g[r].shell = Len(Shells)
    /\ LET kept == NullFilter(g[r].examples)
       IN  g' = [g EXCEPT ![r] = [@ EXCEPT !.examples = kept, !.retry = 0,
                     !.pc = IF g[r].gen = "nl" THEN "shuffle" ELSE "deficit",
                     !.k = Len(kept) - 1]]

\* while len(examples) < count and retry < max_retries: deficit = ...;
\* deficit * 2 more attempts with bash
StartRound(r) ==
    /\ g[r].pc = "deficit"
    /\ Len(g[r].examples) < g[r].count
    /\ g[r].retry < MaxRetries
    /\ g' = [g EXCEPT ![r] = [@ EXCEPT !.pc = Entering(g[r], "bash", "round"),
                 !.left = DrawsFor(g[r], "bash",
                                   (g[r].count - Len(g[r].examples)) * 2)]]

\* One attempt of a deficit round; a null attempt is filtered out.
DeficitOne(r, d) ==
    /\ g[r].pc = "round"
    /\ g[r].left > 0
    /\ LET ex == CreateExample(g[r].gen, "bash", d)
       IN  g' = [g EXCEPT ![r] = [@ EXCEPT !.left = @ - 1,
                     !.examples = @ \o NullFilter(ex)]]

\* retry += 1
EndRound(r) ==
    /\ g[r].pc = "round"
    /\ g[r].left = 0
    /\ g' = [g EXCEPT ![r] = [@ EXCEPT !.pc = "deficit", !.retry = @ + 1]]

\* The loop test fails: on to self.rng.shuffle(examples).
EndDeficit(r) ==
    /\ g[r].pc = "deficit"
    /\ ~(Len(g[r].examples) < g[r].count /\ g[r].retry < MaxRetries)
    /\ g' = [g EXCEPT ![r] = [@ EXCEPT !.pc = "shuffle",
                 !.k = Len(g[r].examples) - 1]]

\* random.shuffle: for i in reversed(range(1, len(x))):
\*                     j = randbelow(i + 1); x[i], x[j] = x[j], x[i]
ShuffleStep(r, d) ==
    /\ g[r].pc \in {"shuffle", "reshuffle"}
    /\ g[r].k >= 1
    /\ g' = [g EXCEPT ![r] = [@ EXCEPT !.k = @ - 1,
                 !.examples = Swap(@, g[r].k + 1, (d % (g[r].k + 1)) + 1)]]

\* The first shuffle is done: the cap (single-command, top-tools) or the
\* return (chained, natural-language).
EndShuffle(r) ==
    /\ g[r].pc = "shuffle"
    /\ g[r].k < 1
    /\ g' = [g EXCEPT ![r] = [@ EXCEPT
                 !.pc = IF g[r].gen \in Capping THEN "partition" ELSE "return"]]

\* max_single_char = ...; the loop that sorts examples into
\* single_char_examples and multi_char_examples
Partition(r) ==
    /\ g[r].pc = "partition"
    /\ g' = [g EXCEPT ![r] = [@ EXCEPT !.pc = "combine",
                 !.max_single_char = MaxSingleChar(g[r].count),
                 !.single_char_examples = SelectSeq(g[r].examples, IsSingle),
                 !.multi_char_examples =
                     SelectSeq(g[r].examples, LAMBDA ex : ~IsSingle(ex))]]

\* examples = multi_char_examples + single_char_examples[:max_single_char]
\* (single_char_examples keeps the list the partition built)
Combine(r) ==
    /\ g[r].pc = "combine"
    /\ LET pool == g[r].multi_char_examples
                   \o CapSingles(g[r].single_char_examples, g[r].max_single_char)
       IN  g' = [g EXCEPT ![r] = [@ EXCEPT !.pc = "reshuffle", !.examples = pool,
                     !.k = Len(pool) - 1]]

\* The second shuffle is done.
EndReshuffle(r) ==
    /\ g[r].pc = "reshuffle"
    /\ g[r].k < 1
    /\ g' = [g EXCEPT ![r] = [@ EXCEPT !.pc = "return"]]

\* return examples[:count]
Return(r) ==
    /\ g[r].pc = "return"
    /\ g' = [g EXCEPT ![r] = [@ EXCEPT !.pc = "done",
                 !.result = Truncate(g[r].examples, g[r].count)]]

\* The catalogs loaded from templates_dir (self.templates), as the set of
\* shells that have entries.
TemplateChoices == {ShellSet, {"bash"}, {"cmd", "fish"}, {"cmd"}}

\* The shells whose catalog file is there but holds no document.
NoDocumentChoices == {{}, {"bash"}, {"tcsh"}}

GenInputs ==
    {i \in [gen : Generators, count : (0..MaxCount) \cup {SkipCount, CapCount},
            templates : TemplateChoices, no_document : NoDocumentChoices] :
        /\ i.gen # "single" => i.templates = ShellSet
        /\ i.count = CapCount => i.gen = "single" /\ "bash" \notin i.templates
        /\ i.count = SkipCount => i.gen = "single" /\ i.templates = {"bash"}
        /\ i.templates \cap i.no_document = {}
        /\ i.no_document # {} => i.count <= 1}

GenInit ==
    /\ \E i \in GenInputs :
           g = [r \in {1} |-> InitRun(i.gen, i.count, i.templates, i.no_document)]
    /\ rng = Idle /\ tape = Idle
    /\ gate = Idle /\ exp = Idle /\ quota = Idle /\ syn = Idle /\ asm = Idle /\ prim = Idle /\ ver = Idle

\* The range of the draw a creation attempt makes, and of the draw of the
\* shuffle step at index k (randbelow(k + 1)).
CreateRange == Len(Candidates)

ShuffleRange(run) == run.k + 1

NotGen == <<gate, exp, quota, rng, tape, syn, asm, prim, ver>>

GenNext ==
    \/ \E r \in DOMAIN g : Start(r) /\ UNCHANGED NotGen
    \/ \E r \in DOMAIN g : \E d \in 0..(CreateRange - 1) :
           GenerateOne(r, d) /\ UNCHANGED NotGen
    \/ \E r \in DOMAIN g : NextShell(r) /\ UNCHANGED NotGen
    \/ \E r \in DOMAIN g : Filter(r) /\ UNCHANGED NotGen
    \/ \E r \in DOMAIN g : StartRound(r) /\ UNCHANGED NotGen
    \/ \E r \in DOMAIN g : \E d \in 0..(CreateRange - 1) :
           DeficitOne(r, d) /\ UNCHANGED NotGen
    \/ \E r \in DOMAIN g : EndRound(r) /\ UNCHANGED NotGen
    \/ \E r \in DOMAIN g : EndDeficit(r) /\ UNCHANGED NotGen
    \/ \E r \in DOMAIN g : \E d \in 0..(ShuffleRange(g[r]) - 1) :
           ShuffleStep(r, d) /\ UNCHANGED NotGen
    \/ \E r \in DOMAIN g : EndShuffle(r) /\ UNCHANGED NotGen
    \/ \E r \in DOMAIN g : Partition(r) /\ UNCHANGED NotGen
    \/ \E r \in DOMAIN g : Combine(r) /\ UNCHANGED NotGen
    \/ \E r \in DOMAIN g : EndReshuffle(r) /\ UNCHANGED NotGen
    \/ \E r \in DOMAIN g : Return(r) /\ UNCHANGED NotGen

SpecGen == GenInit /\ [][GenNext]_vars

Runs == DOMAIN g

Min(a, b) == IF a < b THEN a ELSE b

Singles(examples) == Len(SelectSeq(examples, IsSingle))

NoNulls(examples) ==
    \A i \in 1..Len(examples) :
        Strip(examples[i].incorrect_command) # Strip(examples[i].correct_command)

\* C1: in every synthesizer, once the per-shell pass has been filtered, the
\* pool holds no example whose trimmed sides are equal, through every deficit
\* round, and so does the returned list.
C1_NoNullCorrections ==
    \A r \in Runs :
        g[r].pc \notin {"start", "shells"} =>
            NoNulls(g[r].examples) /\ NoNulls(g[r].result)

\* A top-tools run that needed a deficit round and returned examples.
C1_Witness ==
    \E r \in Runs :
        /\ g[r].gen = "tools" /\ g[r].pc = "done"
        /\ g[r].retry > 0 /\ Len(g[r].result) > 0

\* C2: in every segment the single-character corrections are at most 5% of
\* the returned list.
C2_SingleCharFraction ==
    \A r \in Runs :
        g[r].pc = "done" => 20 * Singles(g[r].result) <= Len(g[r].result)

Occurrences(examples, ex) ==
    Cardinality({i \in 1..Len(examples) : examples[i] = ex})

SameBag(xs, ys) ==
    /\ Len(xs) = Len(ys)
    /\ \A i \in 1..Len(xs) : Occurrences(xs, xs[i]) = Occurrences(ys, xs[i])

\* ceil(count * 0.05)
CeilFivePercent(count) == (count * 5 + 99) \div 100

C10_Bound ==
    \A r \in Runs :
        (g[r].gen \in Capping /\ g[r].pc = "done") =>
            /\ Singles(g[r].result) <= CeilFivePercent(g[r].count)
            /\ Len(g[r].examples) =
                   Len(g[r].multi_char_examples)
                   + Min(Len(g[r].single_char_examples), g[r].max_single_char)

C10_NothingAdded ==
    \A r \in Runs :
        g[r].pc \in {"reshuffle", "return", "done"} =>
            SameBag(g[r].examples, g'[r].examples)

\* C10: the single-command and top-tools synthesizers return at most
\* ceil(count * 0.05) single-character corrections, the pool after the cap
\* is the multi-character examples and the kept single-character ones, and
\* from the cap on no step adds an example to it.
C10_CapWithoutReplacement == []C10_Bound /\ [][C10_NothingAdded]_vars

\* A single-command run at the count where the cap is 1 that partitioned
\* more single-character examples than the cap and returned one.
C10_Witness ==
    \E r \in Runs :
        /\ g[r].gen = "single" /\ g[r].pc = "done"
        /\ g[r].max_single_char >= 1
        /\ Len(g[r].single_char_examples) > g[r].max_single_char
        /\ Singles(g[r].result) = g[r].max_single_char

C17_NeverRaises == \A r \in Runs : g[r].pc # "raised"

C17_RoundDraws ==
    \A r \in Runs :
        (g[r].pc = "deficit" /\ g'[r].pc = "round" /\ g[r].templates # {}) =>
            g'[r].left = 2 * (g[r].count - Len(g[r].examples))

\* C17: generate never raises, whatever catalogs are absent or empty, and
\* while any catalog is loaded every deficit round makes its draws, twice
\* the deficit, from a pool.
C17_NeverFatal == []C17_NeverRaises /\ [][C17_RoundDraws]_vars

\* Past the deficit loop a run holds count examples or has spent its rounds.
C19_Recovers ==
    \A r \in Runs :
        /\ g[r].retry <= MaxRetries
        /\ g[r].pc = "shuffle" =>
               Len(g[r].examples) >= g[r].count \/ g[r].retry = MaxRetries

\* A deficit round is entered only while fewer than count examples are held
\* and fewer than 3 rounds have run.
C19_RoundGuard ==
    \A r \in Runs :
        (g[r].pc = "deficit" /\ g'[r].pc \in {"round", "raised"}) =>
            Len(g[r].examples) < g[r].count /\ g[r].retry < MaxRetries

\* C19: in each of the four synthesizers a run that holds fewer than count
\* examples after the null filter goes through deficit rounds on bash, at
\* most 3 of them, starts none once count examples are held, and leaves the
\* loop only with count examples or with the rounds spent.
C19_DeficitRecovery == []C19_Recovers /\ [][C19_RoundGuard]_vars

ShellsOf(examples) == {examples[i].shell : i \in 1..Len(examples)}

\* Whatever a step of a deficit round adds to the pool is labelled bash, and
\* what was in the pool stays as it was.
C29_RoundAddsBash ==
    \A r \in Runs :
        g[r].pc = "round" =>
            /\ Len(g'[r].examples) >= Len(g[r].examples)
            /\ SubSeq(g'[r].examples, 1, Len(g[r].examples)) = g[r].examples
            /\ \A i \in (Len(g[r].examples) + 1)..Len(g'[r].examples) :
                   g'[r].examples[i].shell = "bash"

\* In a single-command run no draw is left for a shell that was not loaded,
\* in the per-shell pass and in a deficit round alike, and neither the pool
\* nor the returned list holds an example of such a shell.
C29_OnlyLoadedShells ==
    \A r \in Runs :
        g[r].gen = "single" =>
            /\ ShellsOf(g[r].examples) \subseteq g[r].templates
            /\ ShellsOf(g[r].result) \subseteq g[r].templates
            /\ (g[r].pc = "shells" /\ Shells[g[r].shell] \notin g[r].templates) =>
                   g[r].left = 0
            /\ (g[r].pc = "round" /\ "bash" \notin g[r].templates) =>
                   g[r].left = 0

\* C29: every example added by deficit recovery carries shell = bash, and
\* in the single-command synthesizer a shell whose catalog was not loaded
\* gets no draw and never is the shell of an example of the pool or of the
\* returned list; without the bash catalog a deficit round adds nothing.
C29_DeficitIsBash == []C29_OnlyLoadedShells /\ [][C29_RoundAddsBash]_vars

\* A single-command run with the bash catalog alone: zsh had a quota that
\* was skipped, and bash made up for it, so that count examples, more than
\* the quota of bash, were returned.
C29_Witness ==
    \E r \in Runs :
        /\ g[r].gen = "single" /\ g[r].pc = "done"
        /\ g[r].templates = {"bash"}
        /\ g[r].shell_counts["zsh"] > 0
        /\ g[r].retry > 0
        /\ Len(g[r].result) = g[r].count
        /\ Len(g[r].result) > g[r].shell_counts["bash"]

\* A single-command run without the bash catalog: the rounds were spent and
\* only examples of the loaded shells came back, fewer than count.
C29_WitnessNoBash ==
    \E r \in Runs :
        /\ g[r].gen = "single" /\ g[r].pc = "done"
        /\ "bash" \notin g[r].templates
        /\ g[r].retry = MaxRetries
        /\ g[r].result # <<>> /\ Len(g[r].result) < g[r].count

(***************************************************************************)
(* Two runs with the same seed                                             *)
(*                                                                         *)
(* random.Random(seed) is a fixed stream of values determined by the seed. *)
(* tape is that stream (read cyclically), rng[r] the position the          *)
(* generator instance of run r has reached in it.                          *)
(***************************************************************************)

\* Length of the stream before it repeats.
TapeLen == 2

\* Largest target count of the two compared runs.
MaxDetCount == 2

TapeValues == 0..(Len(Candidates) - 1)

\* One generator for the whole process, shared by every instance.
RngOwnerShared(r) == 1

\* self.rng = random.Random(seed): each instance draws from its own
\* generator.
RngOwner(r) == r

\* The value the next call of the run's generator returns.
Draw(r) == tape[rng[RngOwner(r)]]

\* The generator moves on by one value; a step without a draw leaves it.
Drawn(r) == rng' = [rng EXCEPT ![RngOwner(r)] = (@ + 1) % TapeLen]

\* The second run is made after the first has returned.
Turn(r) == r = 1 \/ g[1].pc = "done"

DetRuns == {1, 2}

DetInit ==
    /\ \E i \in {j \in GenInputs : j.count <= MaxDetCount} :
           g = [r \in DetRuns |-> InitRun(i.gen, i.count, i.templates, i.no_document)]
    /\ tape \in [0..(TapeLen - 1) -> TapeValues]
    /\ rng = [r \in DetRuns |-> 0]
    /\ gate = Idle /\ exp = Idle /\ quota = Idle /\ syn = Idle /\ asm = Idle /\ prim = Idle /\ ver = Idle

NoDraw == <<gate, exp, quota, rng, tape, syn, asm, prim, ver>>

NotRng == <<gate, exp, quota, tape, syn, asm, prim, ver>>

DetNext ==
    \/ \E r \in DetRuns : Turn(r) /\ Start(r) /\ UNCHANGED NoDraw
    \/ \E r \in DetRuns :
           Turn(r) /\ GenerateOne(r, Draw(r)) /\ Drawn(r) /\ UNCHANGED NotRng
    \/ \E r \in DetRuns : Turn(r) /\ NextShell(r) /\ UNCHANGED NoDraw
    \/ \E r \in DetRuns : Turn(r) /\ Filter(r) /\ UNCHANGED NoDraw
    \/ \E r \in DetRuns : Turn(r) /\ StartRound(r) /\ UNCHANGED NoDraw
    \/ \E r \in DetRuns :
           Turn(r) /\ DeficitOne(r, Draw(r)) /\ Drawn(r) /\ UNCHANGED NotRng
    \/ \E r \in DetRuns : Turn(r) /\ EndRound(r) /\ UNCHANGED NoDraw
    \/ \E r \in DetRuns : Turn(r) /\ EndDeficit(r) /\ UNCHANGED NoDraw
    \/ \E r \in DetRuns :
           Turn(r) /\ ShuffleStep(r, Draw(r)) /\ Drawn(r) /\ UNCHANGED NotRng
    \/ \E r \in DetRuns : Turn(r) /\ EndShuffle(r) /\ UNCHANGED NoDraw
    \/ \E r \in DetRuns : Turn(r) /\ Partition(r) /\ UNCHANGED NoDraw
    \/ \E r \in DetRuns : Turn(r) /\ Combine(r) /\ UNCHANGED NoDraw
    \/ \E r \in DetRuns : Turn(r) /\ EndReshuffle(r) /\ UNCHANGED NoDraw
    \/ \E r \in DetRuns : Turn(r) /\ Return(r) /\ UNCHANGED NoDraw

SpecDet == DetInit /\ [][DetNext]_vars

BothDone == g[1].pc = "done" /\ g[2].pc = "done"

\* C7: two runs of one synthesizer with the same seed, catalogs and count
\* return the same list in the same order.
C7_Deterministic == BothDone => g[1].result = g[2].result

\* Two finished runs that drew from the stream, shuffled, and returned the
\* same list of two different examples.
C7_Witness ==
    /\ BothDone
    /\ Len(g[1].result) = 2
    /\ g[1].result[1] # g[1].result[2]
    /\ g[1].result = g[2].result
    /\ \E p \in DOMAIN tape : tape[p] # tape[0]

(***************************************************************************)
(* Corruption primitives of BaseGenerator                                  *)
(***************************************************************************)

\* string.ascii_lowercase and string.ascii_uppercase, in order.
AsciiLowercase == <<"a", "b", "c", "d", "e", "f", "g", "h", "i", "j", "k", "l", "m", "n", "o", "p", "q", "r", "s", "t", "u", "v", "w", "x", "y", "z">>

AsciiUppercase == <<"A", "B", "C", "D", "E", "F", "G", "H", "I", "J", "K", "L", "M", "N", "O", "P", "Q", "R", "S", "T", "U", "V", "W", "X", "Y", "Z">>

Chars(s) == {s[i] : i \in 1..Len(s)}

\* str.lower() of one character.
Lower(c) ==
    IF c \in Chars(AsciiUppercase)
    THEN AsciiLowercase[CHOOSE i \in 1..Len(AsciiUppercase) : AsciiUppercase[i] = c]
    ELSE c

\* KEYBOARD_ADJACENT
KEYBOARD_ADJACENT ==
    [c \in Chars(AsciiLowercase) |->
        CASE c = "a" -> <<"q", "w", "s", "z">>   [] c = "b" -> <<"v", "g", "h", "n">>
          [] c = "c" -> <<"x", "d", "f", "v">>   [] c = "d" -> <<"s", "e", "r", "f", "c", "x">>
          [] c = "e" -> <<"w", "s", "d", "r">>   [] c = "f" -> <<"d", "r", "t", "g", "c", "v">>
          [] c = "g" -> <<"f", "t", "y", "h", "b", "v">> [] c = "h" -> <<"g", "y", "u", "j", "n", "b">>
          [] c = "i" -> <<"u", "j", "k", "o">>   [] c = "j" -> <<"h", "u", "i", "k", "n", "m">>
          [] c = "k" -> <<"j", "i", "o", "l", "m">>  [] c = "l" -> <<"k", "o", "p">>
          [] c = "m" -> <<"n", "j", "k">>    [] c = "n" -> <<"b", "h", "j", "m">>
          [] c = "o" -> <<"i", "k", "l", "p">>   [] c = "p" -> <<"o", "l">>
          [] c = "q" -> <<"w", "a">>     [] c = "r" -> <<"e", "d", "f", "t">>
          [] c = "s" -> <<"a", "w", "e", "d", "x", "z">> [] c = "t" -> <<"r", "f", "g", "y">>
          [] c = "u" -> <<"y", "h", "j", "i">>   [] c = "v" -> <<"c", "f", "g", "b">>
          [] c = "w" -> <<"q", "a", "s", "e">>   [] c = "x" -> <<"z", "s", "d", "c">>
          [] c = "y" -> <<"t", "g", "h", "u">>   [] c = "z" -> <<"a", "s", "x">>]

\* The index of the first occurrence of sub in s at or after from, 0 if none
\* (str.find, 1-based).
RECURSIVE Find(_, _, _)
Find(s, sub, from) ==
    IF from + Len(sub) - 1 > Len(s) THEN 0
    ELSE IF SubSeq(s, from, from + Len(sub) - 1) = sub THEN from
    ELSE Find(s, sub, from + 1)

\* sub in s
Contains(s, sub) == Find(s, sub, 1) > 0

\* s.replace(old, new, 1)
ReplaceFirst(s, old, new) ==
    LET at == Find(s, old, 1)
    IN  IF at = 0 THEN s
        ELSE SubSeq(s, 1, at - 1) \o new \o SubSeq(s, at + Len(old), Len(s))

\* s.split(sep) for a non-empty separator.
RECURSIVE SplitOn(_, _)
SplitOn(s, sep) ==
    LET at == Find(s, sep, 1)
    IN  IF at = 0 THEN <<s>>
        ELSE <<SubSeq(s, 1, at - 1)>> \o SplitOn(SubSeq(s, at + Len(sep), Len(s)), sep)

\* Number of leading characters of s that are not whitespace.
RECURSIVE WordLen(_)
WordLen(s) ==
    IF s # <<>> /\ Head(s) \notin Whitespace THEN 1 + WordLen(Tail(s)) ELSE 0

\* s.split(): the maximal runs of non-whitespace characters.
RECURSIVE Split(_)
Split(s) ==
    LET t == LStrip(s)
        n == WordLen(t)
    IN  IF t = <<>> THEN <<>>
        ELSE <<SubSeq(t, 1, n)>> \o Split(SubSeq(t, n + 1, Len(t)))

\* sep.join(parts)
RECURSIVE Join(_, _)
Join(parts, sep) ==
    IF parts = <<>> THEN <<>>
    ELSE IF Len(parts) = 1 THEN parts[1]
    ELSE parts[1] \o sep \o Join(Tail(parts), sep)

\* word[:pos] and word[pos:] for a 0-based pos.
Upto(word, pos) == SubSeq(word, 1, pos)

From(word, pos) == SubSeq(word, pos + 1, Len(word))

\* The words generate_typo can make of one word of length at least 2, one
\* set per typo_type; a type whose length test fails leaves the word.
TypoSwap(word) ==
    IF Len(word) >= 3
    THEN {Upto(word, pos) \o <<word[pos + 2], word[pos + 1]>> \o From(word, pos + 2) :
              pos \in 0..(Len(word) - 2)}
    ELSE {word}

TypoDelete(word) ==
    IF Len(word) >= 3
    THEN {Upto(word, pos) \o From(word, pos + 1) : pos \in 1..(Len(word) - 1)}
    ELSE {word}

\* An insertion that can write a blank.
TypoInsertBlank(word) ==
    {Upto(word, pos) \o <<char>> \o From(word, pos) :
         pos \in 1..(Len(word) - 1), char \in {" "}}

TypoInsert(word) ==
    {Upto(word, pos) \o <<char>> \o From(word, pos) :
         pos \in 1..(Len(word) - 1), char \in Chars(AsciiLowercase)}

TypoAdjacent(word) ==
    UNION {LET char == Lower(word[pos + 1])
           IN  IF char \in DOMAIN KEYBOARD_ADJACENT
               THEN {Upto(word, pos) \o <<new_char>> \o From(word, pos + 1) :
                         new_char \in Chars(KEYBOARD_ADJACENT[char])}
               ELSE {word} :
           pos \in 0..(Len(word) - 1)}

TypoDouble(word) ==
    {Upto(word, pos) \o <<word[pos + 1]>> \o From(word, pos) :
         pos \in 0..(Len(word) - 1)}

\* typo_type = self.rng.choice(["swap", "delete", "insert", "adjacent", "double"])
TypoTypes == {"swap", "delete", "insert", "adjacent", "double"}

\* The words the branch of one typo_type can make of a word.
TypoOfType(word, typo_type) ==
    CASE typo_type = "swap" -> TypoSwap(word)
      [] typo_type = "delete" -> TypoDelete(word)
      [] typo_type = "insert" -> TypoInsert(word)
      [] typo_type = "adjacent" -> TypoAdjacent(word)
      [] OTHER -> TypoDouble(word)

TypoWords(word) ==
    TypoSwap(word) \cup TypoDelete(word) \cup TypoInsert(word)
        \cup TypoAdjacent(word) \cup TypoDouble(word)

\* generate_typo(text, typo_rate): every string it can return.  With
\* typo_rate = 1.0 the test rng.random() > typo_rate never passes; with the
\* default rate it can, and the text comes back as it is.
GenerateTypo(text, always) ==
    LET words == Split(text)
    IN  IF text = <<>> \/ words = <<>> THEN {text}
        ELSE (IF always THEN {} ELSE {text})
             \cup UNION {IF Len(words[idx]) < 2 THEN {text}
                         ELSE {Join([words EXCEPT ![idx] = word], <<" ">>) :
                                   word \in TypoWords(words[idx])} :
                         idx \in 1..Len(words)}

\* The part after idx removed without being joined to the one before.
RemoveSpaceDropsPart(text) ==
    LET parts == Split(text)
    IN  IF Len(parts) < 2 THEN {text}
        ELSE {Join(SubSeq(parts, 1, idx) \o SubSeq(parts, idx + 2, Len(parts)), <<" ">>) :
                  idx \in 1..(Len(parts) - 1)}

\* remove_space(text): two adjacent parts joined, at any index.
RemoveSpace(text) ==
    LET parts == Split(text)
    IN  IF Len(parts) < 2 THEN {text}
        ELSE {Join(SubSeq(parts, 1, idx - 1) \o <<parts[idx] \o parts[idx + 1]>>
                       \o SubSeq(parts, idx + 2, Len(parts)), <<" ">>) :
                  idx \in 1..(Len(parts) - 1)}

(***************************************************************************)
(* Error generators of SingleCommandGenerator                              *)
(***************************************************************************)

\* The result unless it is the correct command, and then a typo at the
\* default rate: "return result if result != correct else
\* self.generate_typo(correct)".
OrTypo(results, correct) ==
    UNION {IF result # correct THEN {result} ELSE GenerateTypo(correct, FALSE) :
               result \in results}

\* The first of the indexes at which a loop over the parts stops, 0 if it
\* stops at none.
FirstIndex(indexes) ==
    IF indexes = {} THEN 0
    ELSE CHOOSE i \in indexes : \A j \in indexes : i <= j

\* _generate_typo_error: every string it can return.
GenerateTypoError(correct) ==
    LET words == Split(correct)
        fallthrough == GenerateTypo(correct, FALSE)
        char_delete ==
            IF words = <<>> THEN fallthrough
            ELSE UNION {IF Len(words[idx]) > 2
                        THEN {Join([words EXCEPT ![idx] =
                                        Upto(words[idx], pos) \o From(words[idx], pos + 1)],
                                   <<" ">>) : pos \in 1..(Len(words[idx]) - 1)}
                        ELSE fallthrough :
                        idx \in 1..Len(words)}
        char_double ==
            IF words = <<>> THEN fallthrough
            ELSE UNION {IF Len(words[idx]) > 1
                        THEN {Join([words EXCEPT ![idx] =
                                        Upto(words[idx], pos) \o <<words[idx][pos + 1]>>
                                            \o From(words[idx], pos)],
                                   <<" ">>) : pos \in 0..(Len(words[idx]) - 1)}
                        ELSE fallthrough :
                        idx \in 1..Len(words)}
    IN  GenerateTypo(correct, TRUE) \cup char_delete \cup char_double
            \cup RemoveSpace(correct)

IsShortFlag(parts, i) ==
    IsPrefix(<<"-">>, parts[i]) /\ ~IsPrefix(<<"-", "-">>, parts[i]) /\ Len(parts[i]) > 2

HasFlagValue(parts, i) ==
    i < Len(parts) /\ IsPrefix(<<"-">>, parts[i]) /\ ~IsPrefix(<<"-">>, parts[i + 1])

\* The first half of _generate_flag_error: " --" to " -", or the first short
\* flag of more than one letter given a second dash.
FlagDashes(correct) ==
    IF Contains(correct, <<" ", "-", "-">>) THEN ReplaceFirst(correct, <<" ", "-", "-">>, <<" ", "-">>)
    ELSE IF Contains(correct, <<" ", "-">>)
    THEN LET parts == Split(correct)
             i == FirstIndex({k \in 1..Len(parts) : IsShortFlag(parts, k)})
         IN  Join(IF i = 0 THEN parts ELSE [parts EXCEPT ![i] = <<"-">> \o parts[i]],
                  <<" ">>)
    ELSE correct

\* The second half, taken with probability 0.3: the first flag argument
\* removed.
FlagValueRemoved(result) ==
    LET parts == Split(result)
        i == FirstIndex({k \in 1..Len(parts) : HasFlagValue(parts, k)})
    IN  Join(IF i = 0 THEN parts
             ELSE SubSeq(parts, 1, i) \o SubSeq(parts, i + 2, Len(parts)),
             <<" ">>)

\* _generate_flag_error
GenerateFlagError(correct) ==
    OrTypo({FlagDashes(correct), FlagValueRemoved(FlagDashes(correct))}, correct)

\* _generate_permission_error: the command without its "sudo "; every other
\* branch returns the command as it is.
GeneratePermissionError(correct) ==
    IF IsPrefix(<<"s", "u", "d", "o", " ">>, correct) THEN {From(correct, 5)} ELSE {correct}

HasLongPath(parts, i) ==
    Contains(parts[i], <<"/">>) /\ Len(SplitOn(parts[i], <<"/">>)) > 2

\* _generate_path_error
GeneratePathError(correct) ==
    LET relative_absolute ==
            IF Contains(correct, <<".", "/">>) THEN {ReplaceFirst(correct, <<".", "/">>, <<"/">>)}
            ELSE IF IsPrefix(<<"/">>, correct) THEN {<<".">> \o correct}
            ELSE {correct}
        parts == Split(correct)
        i == FirstIndex({k \in 1..Len(parts) : HasLongPath(parts, k)})
        segments == SplitOn(parts[i], <<"/">>)
        missing_slash ==
            IF ~Contains(correct, <<"/">>) THEN {correct}
            ELSE IF i = 0 THEN {Join(parts, <<" ">>)}
            ELSE {Join([parts EXCEPT ![i] =
                           Join(SubSeq(segments, 1, idx - 1)
                                    \o <<segments[idx] \o segments[idx + 1]>>
                                    \o SubSeq(segments, idx + 2, Len(segments)),
                                <<"/">>)],
                       <<" ">>) : idx \in 1..(Len(segments) - 1)}
        typo_in_path == GenerateTypo(correct, TRUE)
        wrong_separator ==
            {correct} \cup (IF Contains(correct, <<"/">>)
                            THEN {ReplaceFirst(correct, <<"/">>, <<"\\">>)}
                            ELSE {})
    IN  OrTypo(relative_absolute \cup missing_slash \cup typo_in_path
                   \cup wrong_separator, correct)

\* error_subtype = self.rng.choice([...])
SyntaxSubtypes == {"missing_quote", "missing_escape", "wrong_operator", "extra_character"}

\* An operator branch that takes away both characters of the operator.
WrongOperatorDropsBoth(correct) ==
    IF Contains(correct, <<"&", "&">>) THEN ReplaceFirst(correct, <<"&", "&">>, <<>>)
    ELSE IF Contains(correct, <<"|", "|">>) THEN ReplaceFirst(correct, <<"|", "|">>, <<>>)
    ELSE IF Contains(correct, <<">", ">">>) THEN ReplaceFirst(correct, <<">", ">">>, <<>>)
    ELSE IF Contains(correct, <<"=", "=">>) THEN ReplaceFirst(correct, <<"=", "=">>, <<>>)
    ELSE correct

\* The wrong_operator branch: the first of "&&", "||", ">>", "==" that the
\* command holds loses a character at its first occurrence.
WrongOperator(correct) ==
    IF Contains(correct, <<"&", "&">>) THEN ReplaceFirst(correct, <<"&", "&">>, <<"&">>)
    ELSE IF Contains(correct, <<"|", "|">>) THEN ReplaceFirst(correct, <<"|", "|">>, <<"|">>)
    ELSE IF Contains(correct, <<">", ">">>) THEN ReplaceFirst(correct, <<">", ">">>, <<">">>)
    ELSE IF Contains(correct, <<"=", "=">>) THEN ReplaceFirst(correct, <<"=", "=">>, <<"=">>)
    ELSE correct

\* What the branch of one error_subtype can make of the command (result,
\* before the last line of _generate_syntax_error).
SyntaxMutation(correct, error_subtype) ==
    LET words == Split(correct)
    IN  CASE error_subtype = "missing_quote" ->
                {IF Contains(correct, <<"\"">>) THEN ReplaceFirst(correct, <<"\"">>, <<>>)
                 ELSE IF Contains(correct, <<"'">>) THEN ReplaceFirst(correct, <<"'">>, <<>>)
                 ELSE correct}
          [] error_subtype = "missing_escape" ->
                {IF Contains(correct, <<"\\">>) THEN ReplaceFirst(correct, <<"\\">>, <<>>)
                 ELSE correct}
          [] error_subtype = "wrong_operator" -> {WrongOperator(correct)}
          [] OTHER ->
                IF words = <<>> THEN {correct}
                ELSE UNION {{Join([words EXCEPT ![idx] =
                                       Upto(words[idx], pos) \o <<char>> \o From(words[idx], pos)],
                                  <<" ">>) :
                                 pos \in 0..Len(words[idx]),
                                 char \in Chars(<<"{", "}", "[", "]", "(", ")", ";">>)} :
                            idx \in 1..Len(words)}

\* _generate_syntax_error: every string it can return.
GenerateSyntaxError(correct) ==
    OrTypo(UNION {SyntaxMutation(correct, error_subtype) :
                      error_subtype \in SyntaxSubtypes}, correct)

\* SingleCommandGenerator.ERROR_DISTRIBUTION: the error types it can select.
SingleErrorTypes == {"typo", "wrong_flag", "permission", "path", "syntax"}

\* The branch of _generate_incorrect that goes by the error type.
GenerateByType(correct, error_type) ==
    CASE error_type = "typo" -> GenerateTypoError(correct)
      [] error_type = "wrong_flag" -> GenerateFlagError(correct)
      [] error_type = "permission" -> GeneratePermissionError(correct)
      [] error_type = "path" -> GeneratePathError(correct)
      [] error_type = "syntax" -> GenerateSyntaxError(correct)
      [] OTHER -> GenerateTypo(correct, FALSE)

(***************************************************************************)
(* One synthesis attempt                                                   *)
(*                                                                         *)
(* _create_example_from_entry (single-command), _create_example            *)
(* (top-tools), _create_example_from_pattern (chained) and the body of the *)
(* loop of the natural-language _generate_for_shell, on a few entries of   *)
(* their catalogs.                                                         *)
(***************************************************************************)

Entry(correct, errors) == [correct |-> correct, errors |-> errors]

\* ToolsGenerator.TOOLS: "make -j{n}" and "git stash".
TOOLS ==
    {Entry(<<"m", "a", "k", "e", " ", "-", "j", "{", "n", "}">>, <<<<"m", "a", "k", "e", " ", "-", "j", " ", "{", "n", "}">>, <<"m", "a", "k", "e", " ", "-", "J", "{", "n", "}">>>>),
     Entry(<<"g", "i", "t", " ", "s", "t", "a", "s", "h">>, <<<<"g", "i", "t", " ", "s", "t", "a", "c", "h">>, <<"g", "i", "t", " ", "s", "t", "a", "s">>>>)}

\* Entries of the YAML catalogs the single-command generator loads
\* (self.templates): one with a wrong template, one without, one without a
\* correct template.
SingleEntries ==
    {Entry(<<"s", "u", "d", "o", " ", "l", "s", " ", "-", "-", "a", "l", "l", " ", ".", "/", "{", "p", "a", "t", "h", "}">>, <<<<"s", "u", "d", "o", " ", "l", "s", " ", "-", "a", "l", "l", " ", "{", "p", "a", "t", "h", "}">>>>),
     Entry(<<"c", "d", " ", "{", "p", "a", "t", "h", "}">>, <<>>),
     Entry(<<>>, <<>>)}

\* ChainedCommandGenerator.PIPE_PATTERNS, CHAINING_PATTERNS and
\* REDIRECTION_PATTERNS, one pattern each.
PIPE_PATTERNS ==
    {Entry(<<"p", "s", " ", "a", "u", "x", " ", "|", " ", "g", "r", "e", "p", " ", "-", "v", " ", "g", "r", "e", "p", " ", "|", " ", "g", "r", "e", "p", " ", "{", "p", "r", "o", "c", "e", "s", "s", "}">>,
           <<<<"p", "s", " ", "a", "u", "x", " ", "|", " ", "g", "r", "e", "p", " ", "{", "p", "r", "o", "c", "e", "s", "s", "}">>, <<"p", "s", " ", "-", "e", "f", " ", "|", " ", "g", "r", "e", "p", " ", "{", "p", "r", "o", "c", "e", "s", "s", "}">>>>)}

CHAINING_PATTERNS ==
    {Entry(<<"m", "k", "d", "i", "r", " ", "{", "p", "a", "t", "h", "}", " ", "&", "&", " ", "c", "d", " ", "{", "p", "a", "t", "h", "}">>,
           <<<<"m", "k", "d", "i", "r", " ", "{", "p", "a", "t", "h", "}", " ", "&", " ", "c", "d", " ", "{", "p", "a", "t", "h", "}">>, <<"m", "d", " ", "{", "p", "a", "t", "h", "}", " ", "&", "&", " ", "c", "d", " ", "{", "p", "a", "t", "h", "}">>>>)}

REDIRECTION_PATTERNS ==
    {Entry(<<"c", "o", "m", "m", "a", "n", "d", " ", "2", ">", "/", "d", "e", "v", "/", "n", "u", "l", "l">>,
           <<<<"c", "o", "m", "m", "a", "n", "d", " ", "2", ">", " ", "/", "d", "e", "v", "/", "n", "u", "l", "l">>, <<"c", "o", "m", "m", "a", "n", "d", " ", ">", "/", "d", "e", "v", "/", "n", "u", "l", "l", " ", "2", ">", "&", "1">>>>)}

\* ChainedCommandGenerator.ERROR_DISTRIBUTION: the error types it can select.
ChainedErrorTypes == {"pipe", "chaining", "redirection", "subshell"}

\* The pool the pattern is chosen from for an error type; every pattern for
\* an error type without a pool of its own.
PatternsFor(error_type) ==
    CASE error_type = "pipe" -> PIPE_PATTERNS
      [] error_type = "chaining" -> CHAINING_PATTERNS
      [] error_type = "redirection" -> REDIRECTION_PATTERNS
      [] OTHER -> PIPE_PATTERNS \cup CHAINING_PATTERNS \cup REDIRECTION_PATTERNS

\* NaturalLanguageGenerator.NL_PATTERNS of one shell: (nl_text, command)
\* pairs of the bash catalog in the imperative and question pools; the mixed
\* and intent pools empty, as they are for tcsh.
NL_PATTERNS ==
    [imperative |-> {<<<<"m", "a", "k", "e", " ", "f", "o", "l", "d", "e", "r", " ", "{", "p", "a", "t", "h", "}">>, <<"m", "k", "d", "i", "r", " ", "-", "p", " ", "{", "p", "a", "t", "h", "}">>>>,
                     <<<<"s", "o", "r", "t", " ", "{", "f", "i", "l", "e", "}">>, <<"s", "o", "r", "t", " ", "{", "f", "i", "l", "e", "}">>>>},
     question |-> {<<<<"w", "h", "a", "t", "'", "s", " ", "u", "s", "i", "n", "g", " ", "p", "o", "r", "t", " ", "{", "n", "}">>, <<"l", "s", "o", "f", " ", "-", "i", " ", ":", "{", "n", "}">>>>},
     mixed |-> {},
     intent |-> {}]

\* type_patterns, with the fallback to the imperative pool.
TypePatterns(nl_type) ==
    IF NL_PATTERNS[nl_type] # {} THEN NL_PATTERNS[nl_type] ELSE NL_PATTERNS.imperative

\* A variation that writes on both sides of the text.
AddNlVariationBothEnds(text, nl_type) ==
    {<<"p", "l", "e", "a", "s", "e", " ">> \o text \o <<" ", "p", "l", "e", "a", "s", "e">>}

\* _add_nl_variation: every text the chosen variation can return.
AddNlVariation(text, nl_type) ==
    CASE nl_type = "imperative" ->
            {text, <<"p", "l", "e", "a", "s", "e", " ">> \o text, <<"c", "a", "n", " ", "y", "o", "u", " ">> \o text, text \o <<" ", "p", "l", "e", "a", "s", "e">>,
             <<"I", " ", "w", "a", "n", "t", " ", "t", "o", " ">> \o text, <<"I", " ", "n", "e", "e", "d", " ", "t", "o", " ">> \o text}
      [] nl_type = "question" ->
            {text, text \o <<"?">>, <<"c", "a", "n", " ", "y", "o", "u", " ", "t", "e", "l", "l", " ", "m", "e", " ">> \o text,
             <<"I", " ", "w", "a", "n", "t", " ", "t", "o", " ", "k", "n", "o", "w", " ">> \o text}
      [] nl_type = "mixed" ->
            {text, <<"d", "o", " ", "a", " ">> \o text, <<"r", "u", "n", " ">> \o text}
      [] nl_type = "intent" ->
            {text, <<"I", " ", "w", "a", "n", "t", " ", "t", "o", " ">> \o text, <<"h", "e", "l", "p", " ", "m", "e", " ">> \o text, <<"p", "l", "e", "a", "s", "e", " ">> \o text}
      [] OTHER -> {text}

\* Each side resolves its own placeholders again.
SameVariablesResampled(variables, template) == ExtractVariables(template)

\* "use SAME variable values": the dict the wrong template (or the phrase) is
\* expanded with is the one resolved for the attempt.
SameVariables(variables, template) == {variables}

\* ChainedCommandGenerator._generate_synthetic_error: every string it can
\* return.
GenerateSyntheticError(correct, error_type) ==
    LET typo == GenerateTypo(correct, FALSE)
        parts == SplitOn(correct, <<" ", "|", " ">>)
    IN  CASE error_type = "pipe" ->
                IF Contains(correct, <<" ", "|", " ">>) /\ Len(parts) > 2
                THEN {Join(SubSeq(parts, 1, idx) \o SubSeq(parts, idx + 2, Len(parts)),
                           <<" ", "|", " ">>) : idx \in 1..(Len(parts) - 1)}
                ELSE typo
          [] error_type = "chaining" ->
                IF Contains(correct, <<" ", "&", "&", " ">>)
                THEN {ReplaceFirst(correct, <<" ", "&", "&", " ">>, <<";", " ">>)}
                ELSE IF Contains(correct, <<" ", "|", "|", " ">>)
                THEN {ReplaceFirst(correct, <<" ", "|", "|", " ">>, <<" ", "|", " ">>)}
                ELSE typo
          [] error_type = "redirection" ->
                IF Contains(correct, <<"2", ">", "&", "1">>)
                THEN {ReplaceFirst(correct, <<"2", ">", "&", "1">>, <<"2", ">", "1">>)}
                ELSE IF Contains(correct, <<">", ">">>)
                THEN {ReplaceFirst(correct, <<">", ">">>, <<">">>)}
                ELSE typo
          [] OTHER -> typo

\* max_retries = 3 of the single-character retry loop of one attempt
MaxAttemptRetries == 3

\* One attempt: the locals of the _create_example* method, with whether the
\* first candidate was null (first_null) and the corruptions called after
\* it, in the order of the calls (steps).
InitAttempt(gen, error_type, entry) ==
    [gen |-> gen, error_type |-> error_type, pc |-> "resolve",
     correct_template |-> entry.correct, errors |-> entry.errors,
     variables |-> <<>>, correct_cmd |-> <<>>, incorrect_cmd |-> <<>>,
     error_template |-> <<>>, from_template |-> FALSE, retry |-> 0,
     first_null |-> FALSE, steps |-> <<>>, u |-> 0,
     result |-> NoExample]

\* The attempts the generators start: the entry drawn and, for the chained
\* and natural-language generators, the type selected before it.  For the
\* natural-language generator the command is the correct template and the
\* phrase stands where the others have their wrong templates.
SynInputs ==
    {InitAttempt("tools", "tool_specific", e) : e \in TOOLS}
    \cup {InitAttempt("single", t, e) : t \in SingleErrorTypes, e \in SingleEntries}
    \cup UNION {{InitAttempt("chained", t, e) : e \in PatternsFor(t)} :
                   t \in ChainedErrorTypes}
    \cup UNION {{InitAttempt("nl", t, Entry(p[2], <<p[1]>>)) : p \in TypePatterns(t)} :
                   t \in DOMAIN NL_PATTERNS}

SynInit ==
    /\ syn \in SynInputs
    /\ gate = Idle /\ exp = Idle /\ quota = Idle
    /\ g = NoRuns /\ rng = Idle /\ tape = Idle
    /\ asm = Idle /\ prim = Idle /\ ver = Idle

NotSyn == <<gate, exp, quota, g, rng, tape, asm, prim, ver>>

\* The text the placeholders are collected from: the correct template; the
\* phrase, a blank and the command in the natural-language generator.
ResolvedFrom(a) ==
    IF a.gen = "nl" THEN a.errors[1] \o <<" ">> \o a.correct_template
    ELSE a.correct_template

\* A final check that discards the single-character corrections as well.
FinalCheckDiscardsSingles(a, incorrect) ==
    IF IsNullCorrection(incorrect, a.correct_cmd)
       \/ IsSingleCharCorrection(incorrect, a.correct_cmd)
    THEN NoExample
    ELSE <<Example("bash", incorrect, a.correct_cmd)>>

\* if incorrect.strip() == correct.strip(): return None, else the example
FinalCheck(a, incorrect) ==
    IF IsNullCorrection(incorrect, a.correct_cmd) THEN NoExample
    ELSE <<Example("bash", incorrect, a.correct_cmd)>>

\* if not correct_template: return None;
\* variables = self._extract_variables(...);
\* correct = self.expand_template(correct_template, variables)
SynResolve ==
    /\ syn.pc = "resolve"
    /\ IF syn.correct_template = <<>>
       THEN syn' = [syn EXCEPT !.pc = "done"]
       ELSE \E variables \in ExtractVariables(ResolvedFrom(syn)) :
               syn' = [syn EXCEPT !.pc = "candidate", !.variables = variables,
                           !.correct_cmd =
                               ExpandTemplate(syn.correct_template, variables)]
    /\ UNCHANGED NotSyn

\* The values of self.rng.random() tried, in hundredths: d stands for the
\* double nearest d / 100, and d / 100 < t / 100 holds for these doubles
\* exactly when d < t.
RandomDraws == {0, 59, 60, 65, 69, 70, 99}

\* The constant self.rng.random() is compared with, in hundredths: 0.6 in
\* _generate_incorrect of the single-command generator, 0.7 in the chained
\* and top-tools generators.
WrongTemplateRate(gen) == IF gen = "single" THEN 60 ELSE 70

\* "if errors and self.rng.random() < ...": the draw, made only when the
\* entry has wrong templates; u holds it until the test is made.
SynDraw ==
    /\ syn.pc = "candidate"
    /\ syn.gen # "nl"
    /\ syn.errors # <<>>
    /\ \E u \in RandomDraws : syn' = [syn EXCEPT !.pc = "drawn", !.u = u]
    /\ UNCHANGED NotSyn

\* The test passes:
\*     error_template = self.rng.choice(errors)
\*     incorrect = self.expand_template(error_template, variables)
SynWrongTemplate ==
    /\ syn.pc = "drawn"
    /\ syn.u < WrongTemplateRate(syn.gen)
    /\ \E i \in 1..Len(syn.errors) :
         \E variables \in SameVariables(syn.variables, syn.errors[i]) :
           syn' = [syn EXCEPT !.pc = "check", !.error_template = syn.errors[i],
                       !.from_template = TRUE, !.u = 0,
                       !.first_null =
                           IsNullCorrection(ExpandTemplate(syn.errors[i], variables),
                                            syn.correct_cmd),
                       !.incorrect_cmd = ExpandTemplate(syn.errors[i], variables)]
    /\ UNCHANGED NotSyn

\* else: a typo of the expanded correct command (top-tools), a synthetic error
\* of it (chained), an error of the selected type (single-command)
SynCorrupt ==
    /\ \/ syn.pc = "candidate" /\ syn.gen # "nl" /\ syn.errors = <<>>
       \/ syn.pc = "drawn" /\ ~(syn.u < WrongTemplateRate(syn.gen))
    /\ \E incorrect \in
           (CASE syn.gen = "tools" -> GenerateTypo(syn.correct_cmd, TRUE)
              [] syn.gen = "chained" ->
                     GenerateSyntheticError(syn.correct_cmd, syn.error_type)
              [] syn.gen = "single" ->
                     GenerateByType(syn.correct_cmd, syn.error_type)) :
           syn' = [syn EXCEPT !.pc = "check", !.from_template = FALSE, !.u = 0,
                       !.first_null = IsNullCorrection(incorrect, syn.correct_cmd),
                       !.incorrect_cmd = incorrect]
    /\ UNCHANGED NotSyn

\* nl_text = self.expand_template(nl_text, variables);
\* nl_text = self._add_nl_variation(nl_text, nl_type);
\* examples.append(TrainingExample(...)), with no check of the pair
SynPhrase ==
    /\ syn.pc = "candidate"
    /\ syn.gen = "nl"
    /\ \E variables \in SameVariables(syn.variables, syn.errors[1]) :
         \E nl_text \in AddNlVariation(ExpandTemplate(syn.errors[1], variables),
                                       syn.error_type) :
           syn' = [syn EXCEPT !.pc = "done", !.error_template = syn.errors[1],
                       !.from_template = TRUE, !.first_null = IsNullCorrection(nl_text, syn.correct_cmd),
                       !.incorrect_cmd = nl_text,
                       !.result = <<Example("bash", nl_text, syn.correct_cmd)>>]
    /\ UNCHANGED NotSyn

\* One round of the retry loop of ToolsGenerator._create_example:
\* remove_space, and when that is no better another wrong template (a typo
\* when the entry has none).
SynToolsRetry ==
    /\ syn.pc = "check"
    /\ syn.gen = "tools"
    /\ IsSingleCharCorrection(syn.incorrect_cmd, syn.correct_cmd)
    /\ syn.retry < MaxAttemptRetries
    /\ \E spaced \in RemoveSpace(syn.correct_cmd) :
         IF spaced = syn.correct_cmd \/ IsSingleCharCorrection(spaced, syn.correct_cmd)
         THEN IF syn.errors # <<>>
              THEN \E i \in 1..Len(syn.errors) :
                     \E variables \in SameVariables(syn.variables, syn.errors[i]) :
                       syn' = [syn EXCEPT !.retry = @ + 1,
                                   !.error_template = syn.errors[i],
                                   !.from_template = TRUE,
                                   !.steps = @ \o <<"remove_space", "template">>,
                                   !.incorrect_cmd =
                                       ExpandTemplate(syn.errors[i], variables)]
              ELSE \E typo \in GenerateTypo(syn.correct_cmd, TRUE) :
                       syn' = [syn EXCEPT !.retry = @ + 1, !.from_template = FALSE,
                                   !.steps = @ \o <<"remove_space", "typo">>,
                                   !.incorrect_cmd = typo]
         ELSE syn' = [syn EXCEPT !.retry = @ + 1, !.from_template = FALSE,
                          !.steps = @ \o <<"remove_space">>,
                          !.incorrect_cmd = spaced]
    /\ UNCHANGED NotSyn

\* The loop is over: the final null check of _create_example.
SynToolsFinish ==
    /\ syn.pc = "check"
    /\ syn.gen = "tools"
    /\ ~(IsSingleCharCorrection(syn.incorrect_cmd, syn.correct_cmd)
         /\ syn.retry < MaxAttemptRetries)
    /\ syn' = [syn EXCEPT !.pc = "done", !.result = FinalCheck(syn, syn.incorrect_cmd)]
    /\ UNCHANGED NotSyn

\* _create_example_from_pattern on a null candidate: a synthetic error, then
\* a forced typo, then None.
SynChainedFallback ==
    /\ syn.pc = "check"
    /\ syn.gen = "chained"
    /\ IsNullCorrection(syn.incorrect_cmd, syn.correct_cmd)
    /\ \E synthetic \in GenerateSyntheticError(syn.correct_cmd, syn.error_type) :
         IF IsNullCorrection(synthetic, syn.correct_cmd)
         THEN \E typo \in GenerateTypo(syn.correct_cmd, TRUE) :
                  syn' = [syn EXCEPT !.pc = "done", !.from_template = FALSE,
                              !.steps = <<"synthetic", "typo">>,
                              !.incorrect_cmd = typo,
                              !.result = FinalCheck(syn, typo)]
         ELSE syn' = [syn EXCEPT !.pc = "done", !.from_template = FALSE,
                          !.steps = <<"synthetic">>,
                          !.incorrect_cmd = synthetic,
                          !.result = FinalCheck(syn, synthetic)]
    /\ UNCHANGED NotSyn

\* _create_example_from_pattern on a candidate that is not null.
SynChainedFinish ==
    /\ syn.pc = "check"
    /\ syn.gen = "chained"
    /\ ~IsNullCorrection(syn.incorrect_cmd, syn.correct_cmd)
    /\ syn' = [syn EXCEPT !.pc = "done",
                   !.result = <<Example("bash", syn.incorrect_cmd, syn.correct_cmd)>>]
    /\ UNCHANGED NotSyn

\* A command that is the correct one or one character away from it: the test
\* between the fallbacks of the retry loop of _create_example_from_entry.
NoBetter(incorrect, correct) ==
    incorrect = correct \/ IsSingleCharCorrection(incorrect, correct)

\* _create_example_from_entry, after _generate_incorrect:
\* if incorrect_cmd == correct_cmd: a typo at rate 1.0
SynSingleFallback ==
    /\ syn.pc = "check"
    /\ syn.gen = "single"
    /\ syn.incorrect_cmd = syn.correct_cmd
    /\ \E typo \in GenerateTypo(syn.correct_cmd, TRUE) :
           syn' = [syn EXCEPT !.pc = "loop", !.from_template = FALSE,
                       !.steps = <<"typo">>, !.incorrect_cmd = typo]
    /\ UNCHANGED NotSyn

\* The attempt of the single-command generator stands at the test of its
\* retry loop.
AtSingleLoop ==
    /\ syn.gen = "single"
    /\ \/ syn.pc = "loop"
       \/ syn.pc = "check" /\ syn.incorrect_cmd # syn.correct_cmd

\* The retry loop is entered: incorrect_cmd = self.remove_space(correct_cmd)
SynSingleRemoveSpace ==
    /\ AtSingleLoop
    /\ IsSingleCharCorrection(syn.incorrect_cmd, syn.correct_cmd)
    /\ syn.retry < MaxAttemptRetries
    /\ \E spaced \in RemoveSpace(syn.correct_cmd) :
           syn' = [syn EXCEPT !.pc = "flag", !.from_template = FALSE,
                       !.steps = @ \o <<"remove_space">>,
                       !.incorrect_cmd = spaced]
    /\ UNCHANGED NotSyn

\* if that is no better: incorrect_cmd = self._generate_flag_error(...)
SynSingleFlag ==
    /\ syn.pc = "flag"
    /\ \E flagged \in (IF NoBetter(syn.incorrect_cmd, syn.correct_cmd)
                       THEN GenerateFlagError(syn.correct_cmd)
                       ELSE {syn.incorrect_cmd}) :
           syn' = [syn EXCEPT !.pc = "path",
                       !.steps = IF NoBetter(syn.incorrect_cmd, syn.correct_cmd)
                                 THEN @ \o <<"flag">> ELSE @,
                       !.incorrect_cmd = flagged]
    /\ UNCHANGED NotSyn

\* if that is no better: incorrect_cmd = self._generate_path_error(...);
\* retry += 1
SynSinglePath ==
    /\ syn.pc = "path"
    /\ \E pathed \in (IF NoBetter(syn.incorrect_cmd, syn.correct_cmd)
                      THEN GeneratePathError(syn.correct_cmd)
                      ELSE {syn.incorrect_cmd}) :
           syn' = [syn EXCEPT !.pc = "loop", !.retry = @ + 1,
                       !.steps = IF NoBetter(syn.incorrect_cmd, syn.correct_cmd)
                                 THEN @ \o <<"path">> ELSE @,
                       !.incorrect_cmd = pathed]
    /\ UNCHANGED NotSyn

\* The loop is over: the final null check of _create_example_from_entry.
SynSingleFinish ==
    /\ AtSingleLoop
    /\ ~(IsSingleCharCorrection(syn.incorrect_cmd, syn.correct_cmd)
         /\ syn.retry < MaxAttemptRetries)
    /\ syn' = [syn EXCEPT !.pc = "done", !.result = FinalCheck(syn, syn.incorrect_cmd)]
    /\ UNCHANGED NotSyn

SynNext ==
    \/ SynResolve
    \/ SynDraw
    \/ SynWrongTemplate
    \/ SynCorrupt
    \/ SynPhrase
    \/ SynToolsRetry
    \/ SynToolsFinish
    \/ SynChainedFallback
    \/ SynChainedFinish
    \/ SynSingleFallback
    \/ SynSingleRemoveSpace
    \/ SynSingleFlag
    \/ SynSinglePath
    \/ SynSingleFinish

SpecSynth == SynInit /\ [][SynNext]_vars

\* The placeholder names of a template.
Names(template) == {FindAll(template)[i] : i \in 1..Len(FindAll(template))}

\* The texts a finished attempt can show for a wrong template expanded in
\* one pass with binding b: the expansion itself, or a variation of it for a
\* natural-language phrase.
Shown(a, b) ==
    IF a.gen = "nl"
    THEN AddNlVariation(SubstituteOnce(a.error_template, b), a.error_type)
    ELSE {SubstituteOnce(a.error_template, b)}

\* C3: when the incorrect side of an emitted pair comes from a wrong template
\* (or, in the natural-language segment, from the phrase), one binding of
\* the placeholders accounts for both sides: the correct side is the correct
\* template and the incorrect side the wrong template with every placeholder
\* replaced by its value in that binding.
C3_SameBinding ==
    (syn.pc = "done" /\ syn.from_template /\ syn.result # NoExample) =>
        \E b \in ExtractVariables(ResolvedFrom(syn)) :
            /\ syn.result[1].correct_command = SubstituteOnce(syn.correct_template, b)
            /\ syn.result[1].incorrect_command \in Shown(syn, b)

\* An emitted chained pair whose wrong template shares a placeholder with the
\* correct template.
C3_Witness ==
    /\ syn.pc = "done" /\ syn.from_template /\ syn.result # NoExample
    /\ syn.gen = "chained"
    /\ Names(syn.correct_template) \cap Names(syn.error_template) # {}

\* C15: every synthesizer runs its single-character fallback at most 3
\* times in one attempt, and an attempt that emits a single-character
\* correction has run it at least once.
C15_FallbackAttempted ==
    /\ syn.retry <= MaxAttemptRetries
    /\ (syn.pc = "done" /\ syn.result # NoExample /\ IsSingle(syn.result[1])) =>
           syn.retry >= 1

\* The stages of a pipeline: correct.split(" | ")
Stages(text) == SplitOn(text, <<" ", "|", " ">>)

\* A chained attempt of type pipe holds, as its first candidate, the
\* synthetic error of a command of three or more stages.
PipeErrorMade ==
    /\ syn.gen = "chained" /\ syn.error_type = "pipe"
    /\ syn.pc = "check" /\ ~syn.from_template
    /\ Len(Stages(syn.correct_cmd)) >= 3

\* C21: the synthetic pipe error on a command of three or more stages is
\* the command without one interior stage: the first and the last stage are
\* kept and the others keep their order.
C21_InteriorStageDeleted ==
    PipeErrorMade =>
        LET stages == Stages(syn.correct_cmd)
            out == Stages(syn.incorrect_cmd)
        IN  /\ Len(out) = Len(stages) - 1
            /\ out[1] = stages[1]
            /\ out[Len(out)] = stages[Len(stages)]
            /\ \E idx \in 2..(Len(stages) - 1) :
                   out = SubSeq(stages, 1, idx - 1) \o SubSeq(stages, idx + 1, Len(stages))

\* C22: a chained attempt whose selected error type is subshell works on a
\* pattern of the chaining pool.
C22_SubshellFromChaining ==
    (syn.gen = "chained" /\ syn.error_type = "subshell") =>
        Entry(syn.correct_template, syn.errors) \in CHAINING_PATTERNS

\* C23: with a wrong-template list that is not empty, the candidate is an
\* expanded wrong template exactly when the draw is below 0.7, in the
\* single-command, chained and top-tools synthesizers alike.
C23_SameThreshold ==
    [][syn.pc = "drawn" => (syn'.from_template <=> syn.u < 70)]_vars

\* What the variations of a type write before and after the phrase.
Wrappers(nl_type) ==
    CASE nl_type = "imperative" ->
            {<<<<>>, <<>>>>,
             <<<<"p", "l", "e", "a", "s", "e", " ">>, <<>>>>,
             <<<<"c", "a", "n", " ", "y", "o", "u", " ">>, <<>>>>,
             <<<<>>, <<" ", "p", "l", "e", "a", "s", "e">>>>,
             <<<<"I", " ", "w", "a", "n", "t", " ", "t", "o", " ">>, <<>>>>,
             <<<<"I", " ", "n", "e", "e", "d", " ", "t", "o", " ">>, <<>>>>}
      [] nl_type = "question" ->
            {<<<<>>, <<>>>>,
             <<<<>>, <<"?">>>>,
             <<<<"c", "a", "n", " ", "y", "o", "u", " ", "t", "e", "l", "l", " ", "m", "e", " ">>, <<>>>>,
             <<<<"I", " ", "w", "a", "n", "t", " ", "t", "o", " ", "k", "n", "o", "w", " ">>, <<>>>>}
      [] nl_type = "mixed" ->
            {<<<<>>, <<>>>>,
             <<<<"d", "o", " ", "a", " ">>, <<>>>>,
             <<<<"r", "u", "n", " ">>, <<>>>>}
      [] nl_type = "intent" ->
            {<<<<>>, <<>>>>,
             <<<<"I", " ", "w", "a", "n", "t", " ", "t", "o", " ">>, <<>>>>,
             <<<<"h", "e", "l", "p", " ", "m", "e", " ">>, <<>>>>,
             <<<<"p", "l", "e", "a", "s", "e", " ">>, <<>>>>}
      [] OTHER -> {<<<<>>, <<>>>>}

\* C24: a natural-language example has, as its correct side, the command
\* template expanded under the binding of the attempt with nothing added,
\* and, as its incorrect side, the phrase expanded under the same binding
\* inside one variation of the selected type.
C24_VariationOnPhraseOnly ==
    (syn.gen = "nl" /\ syn.pc = "done" /\ syn.result # NoExample) =>
        /\ syn.result[1].correct_command =
               SubstituteOnce(syn.correct_template, syn.variables)
        /\ \E w \in Wrappers(syn.error_type) :
               syn.result[1].incorrect_command =
                   w[1] \o SubstituteOnce(syn.errors[1], syn.variables) \o w[2]

\* A question whose command has a placeholder, emitted with words put
\* before the phrase.
C24_Witness ==
    /\ syn.gen = "nl" /\ syn.pc = "done" /\ syn.result # NoExample
    /\ syn.error_type = "question"
    /\ Names(syn.correct_template) # {}
    /\ Len(syn.result[1].incorrect_command)
           > Len(SubstituteOnce(syn.errors[1], syn.variables)) + 1

\* C27: an attempt of the single-command or top-tools synthesizer returns
\* no example exactly when the correct template is empty or its final
\* candidate is null; any other final candidate is returned as it is, a
\* single-character correction left after 3 rounds of the fallback loop
\* included, and the loop runs at most 3 rounds.
C27_DiscardOnlyNull ==
    syn.gen \in {"single", "tools"} =>
        /\ syn.retry <= MaxAttemptRetries
        /\ syn.pc = "done" =>
               /\ syn.result = NoExample <=>
                      \/ syn.correct_template = <<>>
                      \/ IsNullCorrection(syn.incorrect_cmd, syn.correct_cmd)
               /\ syn.result # NoExample =>
                      /\ syn.result[1].incorrect_command = syn.incorrect_cmd
                      /\ syn.result[1].correct_command = syn.correct_cmd

\* A top-tools attempt that ran the 3 rounds and returned a
\* single-character correction.
C27_Witness ==
    /\ syn.gen = "tools" /\ syn.pc = "done"
    /\ syn.retry = MaxAttemptRetries
    /\ syn.result # NoExample
    /\ IsSingle(syn.result[1])

\* The attempt is over and its first candidate was null.
FirstCandidateNull ==
    /\ syn.pc = "done" /\ syn.correct_template # <<>>
    /\ syn.first_null

\* C18: an attempt whose first candidate is null escalates in a fixed order,
\* the structural (synthetic) corruption first and the forced typo after it;
\* it is discarded only when both have been called, and what it emits is
\* never a null pair.
C18_NullEscalation ==
    FirstCandidateNull =>
        /\ syn.steps \in {<<"synthetic">>, <<"synthetic", "typo">>}
        /\ syn.result = NoExample => syn.steps = <<"synthetic", "typo">>
        /\ syn.result # NoExample =>
               ~IsNullCorrection(syn.result[1].incorrect_command,
                                 syn.result[1].correct_command)

(***************************************************************************)
(* The orchestrator: scripts/generate_data.py                              *)
(*                                                                         *)
(* main generates the requested datasets in the order of DATASET_CONFIG,   *)
(* pools their chat-format examples in all_examples and, when more than    *)
(* one dataset was generated and --no-combine is not given, hands the pool *)
(* to combine_datasets, which shuffles it in place and slices it.          *)
(***************************************************************************)

\* Largest --sample value of a run of main (the count of every dataset).
MaxSample == 1

\* Longest list handed to combine_datasets directly.
MaxPool == 21

\* DATASET_CONFIG: the datasets in the order of the dict, each with its
\* generator.  The configured counts (35,000 and more) are used only without
\* --sample; the runs here give --sample.
DATASET_CONFIG ==
    << [name |-> "ds1_single", generator |-> "single"],
       [name |-> "ds2_chained", generator |-> "chained"],
       [name |-> "ds3_natural_language", generator |-> "nl"],
       [name |-> "ds4_tools", generator |-> "tools"] >>

\* datasets_to_generate for the value of --dataset, as indexes of
\* DATASET_CONFIG.
DatasetsToGenerate(dataset) ==
    CASE dataset = "all" -> <<1, 2, 3, 4>>
      [] dataset = "ds1" -> <<1>>
      [] dataset = "ds2" -> <<2>>
      [] dataset = "ds3" -> <<3>>
      [] dataset = "ds4" -> <<4>>

\* TrainingExample.to_chat_format: the system prompt names the shell, the
\* user message is the incorrect command, the assistant message the correct
\* one.
ToChatFormat(ex) ==
    [messages |->
        << [role |-> "system", content |-> ex.shell],
           [role |-> "user", content |-> ex.incorrect_command],
           [role |-> "assistant", content |-> ex.correct_command] >>]

\* The cap of generate (single-command, top-tools) on a filtered pool.
CapPool(gen, examples, count) ==
    IF gen \in Capping
    THEN SelectSeq(examples, LAMBDA ex : ~IsSingle(ex))
         \o CapSingles(SelectSeq(examples, IsSingle), MaxSingleChar(count))
    ELSE examples

\* The lists generator.generate(count) can return: what the creation
\* attempts of the shells with a quota (and of bash, the source of the
\* deficit rounds) can yield, in any order the shuffle can give, after the
\* null filter, the cap and the slice.
Generated(gen, count) ==
    LET sc == AdjustForRounding(ShellCounts(count), count)
        shells == {sh \in ShellSet : sc[sh] > 0} \cup {"bash"}
        created == UNION {{CreateExample(gen, sh, d) : d \in 0..(CreateRange - 1)} :
                              sh \in shells}
    IN  {Truncate(CapPool(gen, NullFilter(Concat(attempts)), count), count) :
            attempts \in StringsUpTo(created, count)}

\* The streams random.Random(seed) can yield, one per seed, read cyclically.
SeedStreams == [0..(TapeLen - 1) -> 0..2]

\* j = randbelow(n) as the step-th draw of the stream
RandBelow(stream, step, n) == stream[step % TapeLen] % n

InitMain(dataset, sample, no_combine, stream) ==
    [pc |-> "generate", datasets |-> DatasetsToGenerate(dataset),
     sample |-> sample, no_combine |-> no_combine, stream |-> stream,
     i |-> 1, all_examples |-> <<>>, pooled |-> <<>>, k |-> 0, step |-> 0,
     total |-> 0, train_end |-> 0, val_end |-> 0,
     train_data |-> <<>>, val_data |-> <<>>, test_data |-> <<>>]

\* main called with --dataset, --sample, --no-combine and --seed.
MainInit ==
    /\ \E dataset \in {"all", "ds1", "ds2", "ds3", "ds4"}, sample \in 1..MaxSample,
          no_combine \in BOOLEAN, stream \in SeedStreams :
           asm = InitMain(dataset, sample, no_combine, stream)
    /\ gate = Idle /\ exp = Idle /\ quota = Idle
    /\ g = NoRuns /\ rng = Idle /\ tape = Idle /\ syn = Idle /\ prim = Idle
    /\ ver = Idle

NotAsm == <<gate, exp, quota, g, rng, tape, syn, prim, ver>>

\* One iteration of "for name in datasets_to_generate": generate_dataset
\* and all_examples.extend(examples).
GenerateDataset ==
    /\ asm.pc = "generate"
    /\ asm.i <= Len(asm.datasets)
    /\ \E examples \in Generated(DATASET_CONFIG[asm.datasets[asm.i]].generator,
                                 asm.sample) :
           asm' = [asm EXCEPT !.i = @ + 1,
                       !.all_examples =
                           @ \o [n \in 1..Len(examples) |-> ToChatFormat(examples[n])]]
    /\ UNCHANGED NotAsm

\* if not args.no_combine and len(datasets_to_generate) > 1:
\*     combine_datasets(all_examples, ...)
CallCombine ==
    /\ asm.pc = "generate"
    /\ asm.i > Len(asm.datasets)
    /\ ~asm.no_combine /\ Len(asm.datasets) > 1
    /\ asm' = [asm EXCEPT !.pc = "shuffle", !.pooled = asm.all_examples,
                   !.k = Len(asm.all_examples) - 1, !.step = 0]
    /\ UNCHANGED NotAsm

\* main ends without combining.
SkipCombine ==
    /\ asm.pc = "generate"
    /\ asm.i > Len(asm.datasets)
    /\ ~(~asm.no_combine /\ Len(asm.datasets) > 1)
    /\ asm' = [asm EXCEPT !.pc = "done"]
    /\ UNCHANGED NotAsm

\* rng.shuffle(all_examples), one step of it:
\*     j = randbelow(i + 1); x[i], x[j] = x[j], x[i]
CombineShuffleStep ==
    /\ asm.pc = "shuffle"
    /\ asm.k >= 1
    /\ asm' = [asm EXCEPT !.k = @ - 1, !.step = @ + 1,
                   !.all_examples =
                       Swap(@, asm.k + 1,
                            RandBelow(asm.stream, asm.step, asm.k + 1) + 1)]
    /\ UNCHANGED NotAsm

\* train_ratio = 0.9 (0x1.ccccccccccccdp-1), val_ratio = 0.05
TRAIN_RATIO == Double(<<1, 12, 12, 12, 12, 12, 12, 12, 12, 12, 12, 12, 12, 13>>, -1)

VAL_RATIO == Double(<<1, 9, 9, 9, 9, 9, 9, 9, 9, 9, 9, 9, 9, 10>>, -5)

\* A slice that takes the element at its end index as well.
SliceInclusive(x, a, b) == SubSeq(x, a + 1, IF b + 1 < Len(x) THEN b + 1 ELSE Len(x))

\* x[a:b] for 0 <= a
Slice(x, a, b) == SubSeq(x, a + 1, IF b < Len(x) THEN b ELSE Len(x))

\* total, train_end, val_end and the three slices.
SplitPool ==
    /\ asm.pc = "shuffle"
    /\ asm.k < 1
    /\ LET total == Len(asm.all_examples)
           train_end == IntOfFloat(FloatTimesInt(TRAIN_RATIO, total))
           val_end == train_end + IntOfFloat(FloatTimesInt(VAL_RATIO, total))
       IN  asm' = [asm EXCEPT !.pc = "split", !.total = total,
                       !.train_end = train_end, !.val_end = val_end,
                       !.train_data = Slice(asm.all_examples, 0, train_end),
                       !.val_data = Slice(asm.all_examples, train_end, val_end),
                       !.test_data = Slice(asm.all_examples, val_end, total)]
    /\ UNCHANGED NotAsm

MainNext ==
    \/ GenerateDataset
    \/ CallCombine
    \/ SkipCombine
    \/ CombineShuffleStep
    \/ SplitPool

SpecMain == MainInit /\ [][MainNext]_vars

\* combine_datasets called on a list of MaxPool or fewer examples, all
\* different.
PoolOf(n) ==
    [i \in 1..n |->
        ToChatFormat(Example(Shells[(i % Len(Shells)) + 1], <<ToString(i)>>,
                             CorrectCommand))]

CombineInit ==
    /\ \E n \in 0..MaxPool, stream \in SeedStreams :
           asm = [InitMain("all", 0, FALSE, stream) EXCEPT
                      !.pc = "shuffle", !.all_examples = PoolOf(n),
                      !.pooled = PoolOf(n), !.k = n - 1]
    /\ gate = Idle /\ exp = Idle /\ quota = Idle
    /\ g = NoRuns /\ rng = Idle /\ tape = Idle /\ syn = Idle /\ prim = Idle
    /\ ver = Idle

CombineNext ==
    \/ CombineShuffleStep
    \/ SplitPool

SpecCombine == CombineInit /\ [][CombineNext]_vars

\* The single-character corrections of a list of chat-format examples.
ChatSingles(examples) ==
    Cardinality({i \in 1..Len(examples) :
        IsSingleCharCorrection(examples[i].messages[2].content,
                               examples[i].messages[3].content)})

\* C11: the list that main pools and combine_datasets shuffles and splits
\* holds at most 5% of the pooled target count (the sum of the counts of
\* the datasets generated) single-character corrections.
C11_PooledCap ==
    asm.pc \in {"shuffle", "split"} =>
        20 * ChatSingles(asm.all_examples) <= asm.sample * Len(asm.datasets)

\* C12: combine_datasets slices the shuffled list of N examples into the
\* first floor(N * 0.9) as train, the next floor(N * 0.05) as validation
\* and all the rest as test; the slices in this order are the shuffled
\* list, which holds the examples passed in, each as often as before.
C12_Slices ==
    asm.pc = "split" =>
        LET N == Len(asm.pooled)
            a == (N * 9) \div 10
            b == N \div 20
        IN  /\ asm.train_data = SubSeq(asm.all_examples, 1, a)
            /\ asm.val_data = SubSeq(asm.all_examples, a + 1, a + b)
            /\ asm.test_data = SubSeq(asm.all_examples, a + b + 1, N)
            /\ asm.train_data \o asm.val_data \o asm.test_data = asm.all_examples
            /\ Len(asm.train_data) + Len(asm.val_data) + Len(asm.test_data) = N
            /\ SameBag(asm.all_examples, asm.pooled)

\* A list of 20 or more examples that the shuffle reordered, split with a
\* validation slice that is not empty and a test slice longer than it.
C12_Witness ==
    /\ asm.pc = "split"
    /\ Len(asm.pooled) >= 20
    /\ asm.all_examples # asm.pooled
    /\ Len(asm.val_data) >= 1
    /\ Len(asm.test_data) > Len(asm.val_data)

(***************************************************************************)
(* One call of a corruption primitive                                      *)
(*                                                                         *)
(* remove_space and wrong_flag of BaseGenerator, the flag, path and syntax *)
(* error generators of SingleCommandGenerator and the synthetic error of   *)
(* ChainedCommandGenerator, each called on one input string.               *)
(***************************************************************************)

\* Most parts concatenated into one input string.
MaxPrimParts == 3

PrimParts ==
    {<<"l", "s">>, <<" ">>, <<" ", "-", "l">>, <<" ", "-", "-", "a">>,
     <<" ", ".", "/", "a", "/", "b">>, <<" ", "&", "&", " ">>}

PrimInputs == {Concat(ps) : ps \in StringsUpTo(PrimParts, MaxPrimParts)}

\* Commands with what _generate_syntax_error looks for: a quote, a
\* backslash, a doubled operator.
SyntaxParts == {<<"'">>, <<"\\">>, <<" ">>, <<"a">>, <<"=", "=">>}

SyntaxInputs == {Concat(ps) : ps \in StringsUpTo(SyntaxParts, MaxPrimParts)}

\* The inputs a primitive is called on.
InputsFor(op) == IF op = "syntax" THEN PrimInputs \cup SyntaxInputs ELSE PrimInputs

Primitives ==
    {"remove_space", "wrong_flag", "flag", "path", "syntax",
     "pipe", "chaining", "redirection", "subshell", "typo"}

\* wrong_flag(text): " --" to " -" when rng.random() > 0.5, " -" to " --"
\* when the text has no " --", the text as it is otherwise.
WrongFlag(text) ==
    IF Contains(text, <<" ", "-", "-">>)
    THEN {ReplaceFirst(text, <<" ", "-", "-">>, <<" ", "-">>), text}
    ELSE IF Contains(text, <<" ", "-">>)
    THEN {ReplaceFirst(text, <<" ", "-">>, <<" ", "-", "-">>)}
    ELSE {text}

PrimInit ==
    /\ \E op \in Primitives :
         \E text \in InputsFor(op) :
           prim = [pc |-> "call", op |-> op, text |-> text, result |-> <<>>,
                   idx |-> 0, typo_type |-> "none", error_subtype |-> "none"]
    /\ gate = Idle /\ exp = Idle /\ quota = Idle
    /\ g = NoRuns /\ rng = Idle /\ tape = Idle /\ syn = Idle /\ asm = Idle
    /\ ver = Idle

NotPrim == <<gate, exp, quota, g, rng, tape, syn, asm, ver>>

\* self.remove_space(text)
CallRemoveSpace ==
    /\ prim.pc = "call"
    /\ prim.op = "remove_space"
    /\ \E result \in RemoveSpace(prim.text) :
           prim' = [prim EXCEPT !.pc = "done", !.result = result]
    /\ UNCHANGED NotPrim

\* self.wrong_flag(text)
CallWrongFlag ==
    /\ prim.pc = "call"
    /\ prim.op = "wrong_flag"
    /\ \E result \in WrongFlag(prim.text) :
           prim' = [prim EXCEPT !.pc = "done", !.result = result]
    /\ UNCHANGED NotPrim

\* self._generate_flag_error(correct, shell)
CallFlagError ==
    /\ prim.pc = "call"
    /\ prim.op = "flag"
    /\ \E result \in GenerateFlagError(prim.text) :
           prim' = [prim EXCEPT !.pc = "done", !.result = result]
    /\ UNCHANGED NotPrim

\* self._generate_path_error(correct)
CallPathError ==
    /\ prim.pc = "call"
    /\ prim.op = "path"
    /\ \E result \in GeneratePathError(prim.text) :
           prim' = [prim EXCEPT !.pc = "done", !.result = result]
    /\ UNCHANGED NotPrim

\* self._generate_syntax_error(correct, shell), with the error_subtype
\* chosen.
CallSyntaxError ==
    /\ prim.pc = "call"
    /\ prim.op = "syntax"
    /\ \E error_subtype \in SyntaxSubtypes :
         \E result \in OrTypo(SyntaxMutation(prim.text, error_subtype), prim.text) :
           prim' = [prim EXCEPT !.pc = "done", !.error_subtype = error_subtype,
                        !.result = result]
    /\ UNCHANGED NotPrim

\* self._generate_synthetic_error(correct, error_type, shell)
CallSyntheticError ==
    /\ prim.pc = "call"
    /\ prim.op \in ChainedErrorTypes
    /\ \E result \in GenerateSyntheticError(prim.text, prim.op) :
           prim' = [prim EXCEPT !.pc = "done", !.result = result]
    /\ UNCHANGED NotPrim

\* self.generate_typo(text, typo_rate), with the word chosen (idx, 1-based,
\* 0 when none was) and the typo_type chosen ("none" when none was): the
\* text as it is when the rate test passes, when it has no word and when
\* the word chosen has fewer than 2 characters; the words rejoined with
\* single blanks otherwise.
CallTypo ==
    /\ prim.pc = "call"
    /\ prim.op = "typo"
    /\ LET words == Split(prim.text)
       IN  \/ prim' = [prim EXCEPT !.pc = "done", !.result = prim.text]
           \/ \E idx \in 1..Len(words) :
                  IF Len(words[idx]) < 2
                  THEN prim' = [prim EXCEPT !.pc = "done", !.idx = idx,
                                    !.result = prim.text]
                  ELSE \E typo_type \in TypoTypes :
                         \E word \in TypoOfType(words[idx], typo_type) :
                           prim' = [prim EXCEPT !.pc = "done", !.idx = idx,
                                        !.typo_type = typo_type,
                                        !.result =
                                            Join([words EXCEPT ![idx] = word], <<" ">>)]
    /\ UNCHANGED NotPrim

PrimNext ==
    \/ CallTypo
    \/ CallRemoveSpace
    \/ CallWrongFlag
    \/ CallFlagError
    \/ CallPathError
    \/ CallSyntaxError
    \/ CallSyntheticError

SpecPrim == PrimInit /\ [][PrimNext]_vars

\* parts with the two at idx and idx + 1 (1-based) made one.
Merged(parts, idx) ==
    SubSeq(parts, 1, idx - 1) \o <<parts[idx] \o parts[idx + 1]>>
        \o SubSeq(parts, idx + 2, Len(parts))

\* C13: on a text of two or more whitespace-separated tokens remove_space
\* returns a string whose tokens are those of the text with two adjacent
\* ones concatenated, one token fewer and the others in place; a text of
\* fewer than two tokens is returned as it is.
C13_OneTokenFewer ==
    (prim.pc = "done" /\ prim.op = "remove_space") =>
        LET tokens == Split(prim.text)
            out == Split(prim.result)
        IN  IF Len(tokens) >= 2
            THEN /\ Len(out) = Len(tokens) - 1
                 /\ \E idx \in 1..(Len(tokens) - 1) : out = Merged(tokens, idx)
            ELSE prim.result = prim.text

\* remove_space returned from a text of three tokens with blanks around
\* them, the last two joined.
C13_Witness ==
    /\ prim.pc = "done" /\ prim.op = "remove_space"
    /\ Len(Split(prim.text)) = 3
    /\ prim.text # Strip(prim.text)
    /\ Split(prim.result) = Merged(Split(prim.text), 2)

\* The input holds nothing of what the primitive looks for: two tokens to
\* join, a flag, a slash, a quote, backslash or doubled operator, a pipe, a
\* chaining operator, a redirection.
TargetAbsent(op, text) ==
    CASE op = "remove_space" -> Len(Split(text)) < 2
      [] op = "wrong_flag" -> ~Contains(text, <<" ", "-">>)
      [] op = "flag" ->
             \A i \in 1..Len(Split(text)) : ~IsPrefix(<<"-">>, Split(text)[i])
      [] op = "path" -> ~Contains(text, <<"/">>)
      [] op = "syntax" ->
             \A t \in {<<"\"">>, <<"'">>, <<"\\">>, <<"&", "&">>, <<"|", "|">>,
                       <<">", ">">>, <<"=", "=">>} : ~Contains(text, t)
      [] op = "pipe" -> ~Contains(text, <<" ", "|", " ">>)
      [] op = "chaining" ->
             ~Contains(text, <<" ", "&", "&", " ">>) /\ ~Contains(text, <<" ", "|", "|", " ">>)
      [] op = "redirection" ->
             ~Contains(text, <<"2", ">", "&", "1">>) /\ ~Contains(text, <<">", ">">>)
      [] OTHER -> FALSE

\* C16: a corruption primitive called on an input without its target
\* returns the input as it is.
C16_UnchangedWhenAbsent ==
    (prim.pc = "done" /\ TargetAbsent(prim.op, prim.text)) =>
        prim.result = prim.text

\* C20: for a command of at least two tokens, what remove_space returns is
\* not a single-character correction of it.
C20_RemoveSpaceMultiChar ==
    (prim.pc = "done" /\ prim.op = "remove_space" /\ Len(Split(prim.text)) >= 2) =>
        ~IsSingleCharCorrection(prim.result, prim.text)

\* The typo call chose a word that is too short for the typo_type it chose,
\* or for any.
TooShort ==
    /\ prim.pc = "done" /\ prim.op = "typo" /\ prim.idx >= 1
    /\ LET word == Split(prim.text)[prim.idx]
       IN  \/ Len(word) < 2
           \/ prim.typo_type \in {"swap", "delete"} /\ Len(word) < 3

\* C25: when the word chosen is too short for the sub-mutation chosen (swap
\* and delete below 3 characters, double below 2), typo returns the text
\* unchanged.
C25_NoOpWhenTooShort == TooShort => prim.result = prim.text

\* The text has single blanks between its tokens and none around them.
SingleSpaced(text) == text = Join(Split(text), <<" ">>)

\* C30: on a single-space-separated text, typo returns a text of as many
\* tokens, all of them but at most one the same as in the input at the same
\* position.
C30_OneTokenChanged ==
    (prim.pc = "done" /\ prim.op = "typo" /\ SingleSpaced(prim.text)) =>
        LET tokens == Split(prim.text)
            out == Split(prim.result)
        IN  /\ Len(out) = Len(tokens)
            /\ Cardinality({i \in 1..Len(tokens) : out[i] # tokens[i]}) <= 1

\* A typo call on a text of three tokens that changed the second one.
C30_Witness ==
    /\ prim.pc = "done" /\ prim.op = "typo" /\ SingleSpaced(prim.text)
    /\ Len(Split(prim.text)) = 3
    /\ prim.idx = 2
    /\ Split(prim.result)[2] # Split(prim.text)[2]

\* The syntax-error call chose a sub-mutation that changed a
\* single-space-separated command, and returned what it made.
SyntaxChanged ==
    /\ prim.pc = "done" /\ prim.op = "syntax"
    /\ SingleSpaced(prim.text)
    /\ prim.result # prim.text
    /\ prim.result \in SyntaxMutation(prim.text, prim.error_subtype)

\* C28 as stated: whenever a syntax-error sub-mutation changes a
\* single-space-separated command, the pair is classified as a
\* single-character correction.
C28_AlwaysSingleChar ==
    SyntaxChanged => IsSingleCharCorrection(prim.result, prim.text)

\* C28: whenever a syntax-error sub-mutation changes a
\* single-space-separated command and leaves no blank at either end of it,
\* the pair is classified as a single-character correction.
C28_SingleCharUnlessEdgeBlank ==
    (SyntaxChanged /\ prim.result = Strip(prim.result)) =>
        IsSingleCharCorrection(prim.result, prim.text)

\* A doubled operator between two words was downgraded.
C28_Witness ==
    /\ SyntaxChanged /\ prim.result = Strip(prim.result)
    /\ prim.error_subtype = "wrong_operator"
    /\ Len(Split(prim.text)) = 3

(***************************************************************************)
(* The verifier: scripts/verify_dataset.py                                 *)
(*                                                                         *)
(* analyze_dataset reads the *_analysis.jsonl files of a directory in the  *)
(* order of their names, leaves out the old *_commands_analysis.jsonl      *)
(* files, and counts examples, null corrections and single-character       *)
(* corrections; print_report turns the counts into the overall verdict.    *)
(* is_single_char_correction of the script has the body of the             *)
(* generators' _is_single_char_correction.                                 *)
(***************************************************************************)

\* Longest file of the directories tried, before the padding.
MaxVerifyLines == 2

\* The multi-character examples a file can be padded with, to reach the
\* totals on both sides of 5%.
PadLines == 20

\* A line of an analysis file: its incorrect_command and correct_command.
Line(incorrect, correct) == [incorrect_command |-> incorrect, correct_command |-> correct]

\* A null correction, a single-character correction, one that is neither.
VerifyLines ==
    {Line(<<"l", "s", " ">>, <<"l", "s">>), Line(<<"l", "a">>, <<"l", "s">>),
     Line(<<"s", "l">>, <<"l", "s">>)}

Padding(n) == [i \in 1..n |-> Line(<<"s", "l">>, <<"l", "s">>)]

\* jsonl_file.stem.replace("_analysis", "") of the files, as sorted() has them.
DatasetNames == <<"ds1_single", "ds1_single_commands", "ds2_chained">>

\* jsonl_file.name.endswith("_commands_analysis.jsonl")
IsOldFile(dataset_name) == dataset_name = "ds1_single_commands"

\* if dataset_name in ["ds1_single", "ds4_tools"]
SingleCharCounted(dataset_name) == dataset_name \in {"ds1_single", "ds4_tools"}

\* The directories tried: the lines of each of the three files.
VerifyDirs ==
    {<<short \o Padding(pad), old, chained>> :
         short \in StringsUpTo(VerifyLines, MaxVerifyLines),
         pad \in {0, PadLines - 1, PadLines},
         old \in StringsUpTo(VerifyLines, 1),
         chained \in StringsUpTo(VerifyLines, MaxVerifyLines)}

VerifyInit ==
    /\ \E files \in VerifyDirs :
           ver = [pc |-> "scan", files |-> files, f |-> 1, line |-> 0,
                  dataset_total |-> 0, total |-> 0, single_char |-> 0,
                  null_corrections |-> 0, all_passed |-> TRUE]
    /\ gate = Idle /\ exp = Idle /\ quota = Idle
    /\ g = NoRuns /\ rng = Idle /\ tape = Idle /\ syn = Idle
    /\ asm = Idle /\ prim = Idle

NotVer == <<gate, exp, quota, g, rng, tape, syn, asm, prim>>

\* if jsonl_file.name.endswith("_commands_analysis.jsonl"): continue
SkipOldFile ==
    /\ ver.pc = "scan"
    /\ ver.f <= Len(ver.files)
    /\ IsOldFile(DatasetNames[ver.f])
    /\ ver' = [ver EXCEPT !.f = @ + 1]
    /\ UNCHANGED NotVer

\* One line of the file: the counts of analyze_dataset.
ScanLine ==
    /\ ver.pc = "scan"
    /\ ver.f <= Len(ver.files)
    /\ ~IsOldFile(DatasetNames[ver.f])
    /\ ver.line < Len(ver.files[ver.f])
    /\ LET example == ver.files[ver.f][ver.line + 1]
           incorrect == example.incorrect_command
           correct == example.correct_command
       IN  ver' = [ver EXCEPT
                      !.line = @ + 1,
                      !.dataset_total = @ + 1,
                      !.null_corrections =
                          IF Strip(incorrect) = Strip(correct) THEN @ + 1 ELSE @,
                      !.single_char =
                          IF SingleCharCounted(DatasetNames[ver.f])
                             /\ IsSingleCharCorrection(incorrect, correct)
                          THEN @ + 1 ELSE @]
    /\ UNCHANGED NotVer

\* The file is read: stats["total"] += dataset_stats["total"]
EndFile ==
    /\ ver.pc = "scan"
    /\ ver.f <= Len(ver.files)
    /\ ~IsOldFile(DatasetNames[ver.f])
    /\ ver.line = Len(ver.files[ver.f])
    /\ ver' = [ver EXCEPT !.f = @ + 1, !.line = 0, !.dataset_total = 0,
                   !.total = @ + ver.dataset_total]
    /\ UNCHANGED NotVer

\* single_char / total * 100 < 5.  For the totals of the directories tried
\* (and up to 3000) the doubles give the verdict of the exact fractions.
BelowFivePercent(single_char, total) == single_char * 100 < 5 * total

\* print_report: the single-character check when there are examples, the
\* null check.
PrintReport ==
    /\ ver.pc = "scan"
    /\ ver.f > Len(ver.files)
    /\ ver' = [ver EXCEPT
                   !.pc = "done",
                   !.all_passed =
                       /\ ver.total > 0 => BelowFivePercent(ver.single_char, ver.total)
                       /\ ver.null_corrections = 0]
    /\ UNCHANGED NotVer

VerifyNext ==
    \/ SkipOldFile
    \/ ScanLine
    \/ EndFile
    \/ PrintReport

SpecVerify == VerifyInit /\ [][VerifyNext]_vars

\* The examples of the files that are scanned.
Scanned ==
    UNION {{<<f, i>> : i \in 1..Len(ver.files[f])} :
               f \in {k \in 1..Len(ver.files) : ~IsOldFile(DatasetNames[k])}}

ScannedNulls ==
    {e \in Scanned : IsNullCorrection(ver.files[e[1]][e[2]].incorrect_command,
                                      ver.files[e[1]][e[2]].correct_command)}

ScannedSingles ==
    {e \in Scanned : IsSingleCharCorrection(ver.files[e[1]][e[2]].incorrect_command,
                                            ver.files[e[1]][e[2]].correct_command)}

\* C26: the report is an overall PASS exactly when no scanned example is a
\* null correction and fewer than 5% of the scanned examples, of all the
\* datasets together, are single-character corrections.
C26_PassIffInvariants ==
    ver.pc = "done" =>
        (ver.all_passed <=>
            /\ ScannedNulls = {}
            /\ Scanned # {} =>
                   20 * Cardinality(ScannedSingles) < Cardinality(Scanned))

====
